---- MODULE Spec2Model ----
(***************************************************************************)
(* PersonaForge dialog store (src/src/store/dialogStore.ts): the dialog    *)
(* graph, its mutation operations and the bounded undo/redo history.       *)
(*                                                                         *)
(* Node ids are the naturals 1, 2, ... in order of creation (the code's    *)
(* `node_${Date.now()}_${random}` ids are unique and never reused).        *)
(* Date.now() is the variable `now`, a clock that advances with each       *)
(* reading until it reaches MaxTime.                                       *)
(***************************************************************************)
EXTENDS Integers, Sequences, FiniteSets, TLC

(***************************************************************************)
(* Bounds of the model.                                                    *)
(***************************************************************************)
MaxNodes == 2
MaxTime == 2
MaxText == 0
MaxMut == 4
MaxSave == 2
MaxUndo == 1
MaxMutNav == 2
MaxSaveNav == 4
MaxUndoNav == 3
MaxMutHistory == 1
MaxSaveHistory == 51
MaxUndoHistory == 0
MaxDialogs == 1

(***************************************************************************)
(* Program constants.                                                      *)
(***************************************************************************)
MaxHistory == 50
NoNode == 0
Null == [null |-> TRUE]

VARIABLES
    currentDialog,  \* DialogState.currentDialog: a Dialog or Null
    history,        \* DialogState.history: sequence of Dialog snapshots
    historyIndex,   \* DialogState.historyIndex: 0-based, -1 when empty
    now,            \* the last value Date.now() returned
    nextNodeId,     \* the id the next created node gets
    nextDialogId,   \* the id the next created dialog gets
    lastOp,         \* the last store call and its arguments
    budget,         \* store calls still allowed, per kind of call
    rt,             \* observer: a save, one mutation, (a save,) undo, redo
    lk,             \* observer: linkNodes(p,c) then unlinkNodes(p,c)
    run,            \* observer: the dialogs saved by the current run of saves
    saves,          \* observer: how many saves the current run has
    undos,          \* observer: how many undos followed the run
    chat            \* the chat handler in flight: its position and its nodes

store == <<currentDialog, history, historyIndex>>
vars == <<currentDialog, history, historyIndex, now, nextNodeId, nextDialogId,
          lastOp, budget, rt, lk, run, saves, undos, chat>>

NodeIds == 1 .. MaxNodes
Texts == 0 .. MaxText

(***************************************************************************)
(* Array helpers, as the JavaScript array methods compute them.            *)
(***************************************************************************)
includes(arr, x) == \E i \in DOMAIN arr : arr[i] = x

filterOut(arr, x) == SelectSeq(arr, LAMBDA e : e # x)

push(arr, x) == Append(arr, x)

slice(arr, from, to) == SubSeq(arr, from + 1, IF to > Len(arr) THEN Len(arr) ELSE to)

Elems(arr) == {arr[i] : i \in DOMAIN arr}

(***************************************************************************)
(* Records.                                                                *)
(***************************************************************************)
createDialogNode(id, text, parentNodeIds, t) ==
    [id |-> id, text |-> text, childNodeIds |-> <<>>,
     parentNodeIds |-> parentNodeIds, updatedAt |-> t]

createNewDialog(id, t) ==
    [id |-> id, rootNodeId |-> NoNode, nodes |-> <<>>, updatedAt |-> t]

has(d, id) == id \in DOMAIN d.nodes

(***************************************************************************)
(* JSON.parse(JSON.stringify(dialog)): the copy keeps exactly the fields   *)
(* that serialize, rebuilt value by value.                                 *)
(***************************************************************************)
jsonNode(n) ==
    [id |-> n.id, text |-> n.text, childNodeIds |-> n.childNodeIds,
     parentNodeIds |-> n.parentNodeIds, updatedAt |-> n.updatedAt]

jsonCopy(d) ==
    [id |-> d.id, rootNodeId |-> d.rootNodeId,
     nodes |-> [k \in DOMAIN d.nodes |-> jsonNode(d.nodes[k])],
     updatedAt |-> d.updatedAt]

(***************************************************************************)
(* The graph mutations, on a store state                                   *)
(* st = [currentDialog, history, historyIndex].                            *)
(***************************************************************************)
addNode(st, node, t) ==
    IF st.currentDialog = Null THEN st
    ELSE LET d == st.currentDialog IN
         [st EXCEPT !.currentDialog =
             [d EXCEPT !.nodes = (node.id :> node) @@ d.nodes,
                       !.rootNodeId = IF d.rootNodeId = NoNode THEN node.id ELSE @,
                       !.updatedAt = t]]

\* { ...node, ...updates, updatedAt: Date.now() }
mergeNode(node, updates, t) ==
    [[f \in DOMAIN node |-> IF f \in DOMAIN updates THEN updates[f] ELSE node[f]]
        EXCEPT !.updatedAt = t]

updateNode(st, nodeId, updates, t) ==
    IF st.currentDialog = Null \/ ~has(st.currentDialog, nodeId) THEN st
    ELSE LET d == st.currentDialog IN
         [st EXCEPT !.currentDialog =
             [d EXCEPT !.nodes[nodeId] = mergeNode(@, updates, t),
                       !.updatedAt = t]]

\* the two forEach loops of deleteNode: every listed parent that exists
\* loses nodeId from its childNodeIds, every listed child that exists loses
\* nodeId from its parentNodeIds
stripNeighbours(nodes, nodeId) ==
    LET node == nodes[nodeId] IN
    [k \in DOMAIN nodes |->
        [nodes[k] EXCEPT
            !.childNodeIds = IF includes(node.parentNodeIds, k)
                             THEN filterOut(@, nodeId) ELSE @,
            !.parentNodeIds = IF includes(node.childNodeIds, k)
                              THEN filterOut(@, nodeId) ELSE @]]

deleteNode(st, nodeId, t) ==
    IF st.currentDialog = Null \/ ~has(st.currentDialog, nodeId) THEN st
    ELSE LET d == st.currentDialog
             stripped == stripNeighbours(d.nodes, nodeId)
         IN  [st EXCEPT !.currentDialog =
                 [d EXCEPT !.nodes = [k \in DOMAIN d.nodes \ {nodeId} |-> stripped[k]],
                           !.updatedAt = t]]

pushUnique(arr, x) == IF includes(arr, x) THEN arr ELSE push(arr, x)

\* mutant: returns only when both endpoints are missing
linkNodes_eitherEndpoint(st, parentId, childId, t) ==
    IF st.currentDialog = Null
       \/ (~has(st.currentDialog, parentId) /\ ~has(st.currentDialog, childId))
    THEN st
    ELSE LET d == st.currentDialog
             n1 == IF has(d, parentId)
                   THEN [d.nodes EXCEPT ![parentId].childNodeIds = pushUnique(@, childId)]
                   ELSE d.nodes
             n2 == IF has(d, childId)
                   THEN [n1 EXCEPT ![childId].parentNodeIds = pushUnique(@, parentId)]
                   ELSE n1
         IN  [st EXCEPT !.currentDialog = [d EXCEPT !.nodes = n2, !.updatedAt = t]]

linkNodes(st, parentId, childId, t) ==
    IF st.currentDialog = Null
       \/ ~has(st.currentDialog, parentId) \/ ~has(st.currentDialog, childId)
    THEN st
    ELSE LET d == st.currentDialog
             n1 == [d.nodes EXCEPT ![parentId].childNodeIds = pushUnique(@, childId)]
             n2 == [n1 EXCEPT ![childId].parentNodeIds = pushUnique(@, parentId)]
         IN  [st EXCEPT !.currentDialog = [d EXCEPT !.nodes = n2, !.updatedAt = t]]

\* mutant: leaves the child's parentNodeIds as they are
unlinkNodes_parentOnly(st, parentId, childId, t) ==
    IF st.currentDialog = Null
       \/ ~has(st.currentDialog, parentId) \/ ~has(st.currentDialog, childId)
    THEN st
    ELSE LET d == st.currentDialog
             n1 == [d.nodes EXCEPT ![parentId].childNodeIds = filterOut(@, childId)]
         IN  [st EXCEPT !.currentDialog = [d EXCEPT !.nodes = n1, !.updatedAt = t]]

unlinkNodes(st, parentId, childId, t) ==
    IF st.currentDialog = Null
       \/ ~has(st.currentDialog, parentId) \/ ~has(st.currentDialog, childId)
    THEN st
    ELSE LET d == st.currentDialog
             n1 == [d.nodes EXCEPT ![parentId].childNodeIds = filterOut(@, childId)]
             n2 == [n1 EXCEPT ![childId].parentNodeIds = filterOut(@, parentId)]
         IN  [st EXCEPT !.currentDialog = [d EXCEPT !.nodes = n2, !.updatedAt = t]]

(***************************************************************************)
(* History.                                                                *)
(***************************************************************************)
\* mutant: evicts the oldest snapshot and leaves the index past the end
saveToHistory_noDecrement(st) ==
    IF st.currentDialog = Null THEN st
    ELSE LET kept == slice(st.history, 0, st.historyIndex + 1)
             pushed == push(kept, jsonCopy(st.currentDialog))
         IN  IF Len(pushed) > MaxHistory
             THEN [st EXCEPT !.history = Tail(pushed),
                             !.historyIndex = Len(pushed) - 1]
             ELSE [st EXCEPT !.history = pushed,
                             !.historyIndex = Len(pushed) - 1]

\* mutant: pushes without dropping the snapshots beyond the index
saveToHistory_noTruncate(st) ==
    IF st.currentDialog = Null THEN st
    ELSE LET pushed == push(st.history, jsonCopy(st.currentDialog))
         IN  IF Len(pushed) > MaxHistory
             THEN [st EXCEPT !.history = Tail(pushed),
                             !.historyIndex = (Len(pushed) - 1) - 1]
             ELSE [st EXCEPT !.history = pushed,
                             !.historyIndex = Len(pushed) - 1]

saveToHistory(st) ==
    IF st.currentDialog = Null THEN st
    ELSE LET kept == slice(st.history, 0, st.historyIndex + 1)
             pushed == push(kept, jsonCopy(st.currentDialog))
         IN  IF Len(pushed) > MaxHistory
             THEN [st EXCEPT !.history = Tail(pushed),
                             !.historyIndex = (Len(pushed) - 1) - 1]
             ELSE [st EXCEPT !.history = pushed,
                             !.historyIndex = Len(pushed) - 1]

\* mutant: restores the snapshot at the index it leaves
undo_staleIndex(st) ==
    IF st.historyIndex > 0
    THEN [st EXCEPT !.historyIndex = @ - 1,
                    !.currentDialog = jsonCopy(st.history[st.historyIndex + 1])]
    ELSE st

\* mutant: moves the index and leaves the live dialog
undo_noRestore(st) ==
    IF st.historyIndex > 0
    THEN [st EXCEPT !.historyIndex = @ - 1]
    ELSE st

\* mutant: at the first snapshot, reloads it
undo_reloadFirst(st) ==
    IF st.historyIndex > 0
    THEN [st EXCEPT !.historyIndex = @ - 1,
                    !.currentDialog = jsonCopy(st.history[(st.historyIndex - 1) + 1])]
    ELSE IF st.historyIndex = 0
    THEN [st EXCEPT !.currentDialog = jsonCopy(st.history[1])]
    ELSE st

undo(st) ==
    IF st.historyIndex > 0
    THEN [st EXCEPT !.historyIndex = @ - 1,
                    !.currentDialog = jsonCopy(st.history[(st.historyIndex - 1) + 1])]
    ELSE st

\* mutant: advances the index and restores the snapshot it leaves
redo_staleSnapshot(st) ==
    IF st.historyIndex < Len(st.history) - 1
    THEN [st EXCEPT !.historyIndex = @ + 1,
                    !.currentDialog = jsonCopy(st.history[st.historyIndex + 1])]
    ELSE st

redo(st) ==
    IF st.historyIndex < Len(st.history) - 1
    THEN [st EXCEPT !.historyIndex = @ + 1,
                    !.currentDialog = jsonCopy(st.history[(st.historyIndex + 1) + 1])]
    ELSE st

(***************************************************************************)
(* Loading a dialog.                                                       *)
(***************************************************************************)
parentless(nodes) == {k \in DOMAIN nodes : Len(nodes[k].parentNodeIds) = 0}

\* Object.values(dialog.nodes).find(...): the first in key order, which is
\* creation order
firstParentless(nodes) ==
    CHOOSE k \in parentless(nodes) : \A j \in parentless(nodes) : k <= j

\* mutant: keeps a stored root that names a missing node
repairRoot_keepDangling(dialog) ==
    IF dialog.rootNodeId = NoNode /\ DOMAIN dialog.nodes # {} /\ parentless(dialog.nodes) # {}
    THEN [dialog EXCEPT !.rootNodeId = firstParentless(dialog.nodes)]
    ELSE dialog

repairRoot(dialog) ==
    LET d1 == IF dialog.rootNodeId # NoNode /\ ~has(dialog, dialog.rootNodeId)
              THEN [dialog EXCEPT !.rootNodeId = NoNode] ELSE dialog
    IN  IF d1.rootNodeId = NoNode /\ DOMAIN d1.nodes # {} /\ parentless(d1.nodes) # {}
        THEN [d1 EXCEPT !.rootNodeId = firstParentless(d1.nodes)]
        ELSE d1

setCurrentDialog(st, dialog) ==
    IF dialog = Null THEN [st EXCEPT !.currentDialog = Null]
    ELSE [st EXCEPT !.currentDialog = repairRoot(dialog)]

(***************************************************************************)
(* The store as a state machine: one action per store call.                *)
(***************************************************************************)
St == [currentDialog |-> currentDialog, history |-> history,
       historyIndex |-> historyIndex]

\* Date.now() at a call: a later time than the last one read; the times
\* from MaxTime on are one value
Times == {IF now < MaxTime THEN now + 1 ELSE MaxTime}

Op(name, a, b) == [op |-> name, a |-> a, b |-> b]

(***************************************************************************)
(* Observers.  They record what the store's callers did, and never feed    *)
(* back into the store.                                                    *)
(***************************************************************************)
MutOps == {"addNode", "updateNode", "deleteNode", "linkNodes", "unlinkNodes"}

RtIdle == [phase |-> "idle", pre |-> Null, post |-> Null]

\* phases: saved (a save took the snapshot pre), mutated (one mutation call
\* followed, leaving post), undone / redone (undo, then redo, followed the
\* mutation), resaved (a second save followed the mutation), undone2 /
\* redone2 (undo, then redo, followed the second save)
rtNext(call, st, st2) ==
    IF call.op = "saveToHistory" /\ st.currentDialog # Null
    THEN IF rt.phase = "mutated"
         THEN [phase |-> "resaved", pre |-> rt.pre, post |-> st.currentDialog]
         ELSE [phase |-> "saved", pre |-> st.currentDialog, post |-> st.currentDialog]
    ELSE IF call.op \in MutOps /\ rt.phase = "saved"
    THEN [phase |-> "mutated", pre |-> rt.pre, post |-> st2.currentDialog]
    ELSE IF call.op \in MutOps /\ rt.phase = "resaved"
    THEN [phase |-> "mutated", pre |-> rt.post, post |-> st2.currentDialog]
    ELSE IF call.op = "undo" /\ rt.phase = "mutated" THEN [rt EXCEPT !.phase = "undone"]
    ELSE IF call.op = "redo" /\ rt.phase = "undone" THEN [rt EXCEPT !.phase = "redone"]
    ELSE IF call.op = "undo" /\ rt.phase = "resaved" THEN [rt EXCEPT !.phase = "undone2"]
    ELSE IF call.op = "redo" /\ rt.phase = "undone2" THEN [rt EXCEPT !.phase = "redone2"]
    ELSE RtIdle

LkIdle == [phase |-> "idle", p |-> NoNode, c |-> NoNode, pc |-> <<>>, cp |-> <<>>]

\* linked: linkNodes(p,c) ran on existing p # c whose lists were pc
\* (p.childNodeIds) and cp (c.parentNodeIds); unlinked: unlinkNodes(p,c)
\* was the next call
lkNext(call, st) ==
    IF /\ call.op = "linkNodes" /\ call.a # call.b /\ st.currentDialog # Null
       /\ has(st.currentDialog, call.a) /\ has(st.currentDialog, call.b)
    THEN [phase |-> "linked", p |-> call.a, c |-> call.b,
          pc |-> st.currentDialog.nodes[call.a].childNodeIds,
          cp |-> st.currentDialog.nodes[call.b].parentNodeIds]
    ELSE IF /\ call.op = "unlinkNodes" /\ lk.phase = "linked"
            /\ call.a = lk.p /\ call.b = lk.c
    THEN [lk EXCEPT !.phase = "unlinked"]
    ELSE LkIdle

lastN(arr, n) == IF Len(arr) > n THEN SubSeq(arr, Len(arr) - n + 1, Len(arr)) ELSE arr

\* a run of saves: saves with only mutations between them; undos count the
\* undo calls that directly follow the run; calls that return at their guard
\* do not count.  run holds the run's last MaxHistory saved dialogs.
RunNext(call, st, acts) ==
    IF call.op = "saveToHistory" /\ st.currentDialog # Null
    THEN IF undos > 0
         THEN /\ run' = <<st.currentDialog>> /\ saves' = 1 /\ undos' = 0
         ELSE /\ run' = lastN(Append(run, st.currentDialog), MaxHistory)
              /\ saves' = saves + 1 /\ undos' = 0
    ELSE IF ~acts THEN UNCHANGED <<run, saves, undos>>
    ELSE IF call.op = "undo" /\ saves > 0
    THEN /\ undos' = undos + 1 /\ UNCHANGED <<run, saves>>
    ELSE IF call.op \in MutOps /\ undos = 0 THEN UNCHANGED <<run, saves, undos>>
    ELSE /\ run' = <<>> /\ saves' = 0 /\ undos' = 0

\* no chat handler runs
ChatIdle == [pc |-> "idle", player |-> NoNode, npc |-> NoNode, added |-> {}, pushed |-> {}]

\* a store call of the given kind takes the store to st2 at time t; acts
\* says that the call got past its guard, and the budget bounds those calls
Step(kind, call, st2, t, acts) ==
    /\ rt' = rtNext(call, St, st2)
    /\ lk' = lkNext(call, St)
    /\ RunNext(call, St, acts)
    /\ acts => budget[kind] > 0
    /\ budget' = IF acts THEN [budget EXCEPT ![kind] = @ - 1] ELSE budget
    /\ currentDialog' = st2.currentDialog
    /\ history' = st2.history
    /\ historyIndex' = st2.historyIndex
    /\ now' = t
    /\ lastOp' = call
    /\ chat' = chat

\* DialogMenu.handleNewDialog
NewDialog ==
    /\ budget.load > 0
    /\ \E t \in Times :
          Step("load", Op("setCurrentDialog", nextDialogId, 0),
               setCurrentDialog(St, createNewDialog(nextDialogId, t)), t, TRUE)
    /\ nextDialogId' = nextDialogId + 1
    /\ UNCHANGED nextNodeId

\* the parentNodeIds a caller creates a node with: none, or the one node it
\* is about to link the new node under
ParentChoices == {<<>>} \cup {<<p>> : p \in 1 .. (nextNodeId - 1)}

AddNode ==
    /\ nextNodeId <= MaxNodes
    /\ \E text \in Texts, parents \in ParentChoices, t \in Times :
          Step("mut", Op("addNode", nextNodeId, IF parents = <<>> THEN NoNode ELSE parents[1]),
               addNode(St, createDialogNode(nextNodeId, text, parents, t), t),
               IF currentDialog = Null THEN now ELSE t, currentDialog # Null)
    /\ nextNodeId' = nextNodeId + 1
    /\ UNCHANGED nextDialogId

\* NodeGraphEditor.onConnect on an ifStatement node: the child list with the
\* true branch (index 0) or the false branch (index 1) set to target
setBranch(children, isTrueBranch, target) ==
    IF isTrueBranch
    THEN IF Len(children) = 0 THEN <<target>> ELSE [children EXCEPT ![1] = target]
    ELSE IF Len(children) = 0 THEN <<target>>
         ELSE IF Len(children) = 1 THEN <<children[1], target>>
         ELSE [children EXCEPT ![2] = target]

\* the partial nodes callers pass to updateNode
Updates(nodeId) ==
    {[text |-> x] : x \in Texts}
    \cup (IF currentDialog # Null /\ has(currentDialog, nodeId)
          THEN {[childNodeIds |-> setBranch(currentDialog.nodes[nodeId].childNodeIds, tb, target)] :
                    tb \in BOOLEAN, target \in DOMAIN currentDialog.nodes}
          ELSE {})

Missing(id) == currentDialog = Null \/ ~has(currentDialog, id)

UpdateNode ==
    /\ \E nodeId \in NodeIds : \E updates \in Updates(nodeId), t \in Times :
          Step("mut", Op("updateNode", nodeId, 0),
               updateNode(St, nodeId, updates, t),
               IF Missing(nodeId) THEN now ELSE t, ~Missing(nodeId))
    /\ UNCHANGED <<nextNodeId, nextDialogId>>

DeleteNodeOf(ids) ==
    /\ \E nodeId \in ids, t \in Times :
          Step("mut", Op("deleteNode", nodeId, 0),
               deleteNode(St, nodeId, t),
               IF Missing(nodeId) THEN now ELSE t, ~Missing(nodeId))
    /\ UNCHANGED <<nextNodeId, nextDialogId>>

DeleteNode == DeleteNodeOf(NodeIds)

LinkNodes ==
    /\ \E parentId \in NodeIds, childId \in NodeIds, t \in Times :
          Step("mut", Op("linkNodes", parentId, childId),
               linkNodes(St, parentId, childId, t),
               IF Missing(parentId) \/ Missing(childId) THEN now ELSE t,
               ~Missing(parentId) /\ ~Missing(childId))
    /\ UNCHANGED <<nextNodeId, nextDialogId>>

UnlinkNodes ==
    /\ \E parentId \in NodeIds, childId \in NodeIds, t \in Times :
          Step("mut", Op("unlinkNodes", parentId, childId),
               unlinkNodes(St, parentId, childId, t),
               IF Missing(parentId) \/ Missing(childId) THEN now ELSE t,
               ~Missing(parentId) /\ ~Missing(childId))
    /\ UNCHANGED <<nextNodeId, nextDialogId>>

SaveToHistory ==
    /\ Step("save", Op("saveToHistory", 0, 0), saveToHistory(St), now,
            currentDialog # Null)
    /\ UNCHANGED <<nextNodeId, nextDialogId>>

Undo ==
    /\ Step("undo", Op("undo", 0, 0), undo(St), now, historyIndex > 0)
    /\ UNCHANGED <<nextNodeId, nextDialogId>>

Redo ==
    /\ Step("redo", Op("redo", 0, 0), redo(St), now,
            historyIndex < Len(history) - 1)
    /\ UNCHANGED <<nextNodeId, nextDialogId>>

\* the state after construction (dialogStore.ts:38-46)
InitStore ==
    /\ currentDialog = Null
    /\ history = <<>>
    /\ historyIndex = -1
    /\ now = 0
    /\ nextNodeId = 1
    /\ nextDialogId = 1
    /\ lastOp = Op("create", 0, 0)
    /\ rt = RtIdle
    /\ lk = LkIdle
    /\ run = <<>>
    /\ saves = 0
    /\ undos = 0
    /\ chat = ChatIdle

Init ==
    /\ InitStore
    /\ budget = [load |-> MaxDialogs, mut |-> MaxMut, save |-> MaxSave,
                 undo |-> MaxUndo, redo |-> MaxUndo]

Next ==
    \/ NewDialog
    \/ AddNode
    \/ UpdateNode
    \/ DeleteNode
    \/ LinkNodes
    \/ UnlinkNodes
    \/ SaveToHistory
    \/ Undo
    \/ Redo

Spec == Init /\ [][Next]_vars

\* the same store with few mutations and more saves, undos and redos
InitNav ==
    /\ InitStore
    /\ budget = [load |-> MaxDialogs, mut |-> MaxMutNav, save |-> MaxSaveNav,
                 undo |-> MaxUndoNav, redo |-> MaxUndoNav]

SpecNav == InitNav /\ [][Next]_vars

\* the same store with few mutations and a history that fills up
InitHistory ==
    /\ InitStore
    /\ budget = [load |-> MaxDialogs, mut |-> MaxMutHistory, save |-> MaxSaveHistory,
                 undo |-> MaxUndoHistory, redo |-> MaxUndoHistory]

SpecHistory == InitHistory /\ [][Next]_vars

TypeOK ==
    /\ historyIndex \in -1 .. (MaxHistory - 1)
    /\ Len(history) <= MaxHistory

(***************************************************************************)
(* Properties of the store.                                                *)
(***************************************************************************)
StNext == [currentDialog |-> currentDialog', history |-> history',
           historyIndex |-> historyIndex']

Symmetric(nodes) ==
    \A p \in DOMAIN nodes :
        /\ \A c \in Elems(nodes[p].childNodeIds) :
              c \in DOMAIN nodes /\ includes(nodes[c].parentNodeIds, p)
        /\ \A q \in Elems(nodes[p].parentNodeIds) :
              q \in DOMAIN nodes /\ includes(nodes[q].childNodeIds, p)

\* C1: in every reachable state of the live graph, c is in p.childNodeIds
\* exactly when p is in c.parentNodeIds, and every listed id names an
\* existing node.
C1_EdgeSymmetry == currentDialog # Null => Symmetric(currentDialog.nodes)

\* C2: in every reachable state rootNodeId is null or the id of a node of
\* the graph.
C2_RootValid ==
    currentDialog # Null =>
        \/ currentDialog.rootNodeId = NoNode
        \/ has(currentDialog, currentDialog.rootNodeId)

\* C3 as stated: after saveToHistory, one mutation and undo, the live graph
\* is the graph that was saved; after a redo it is the mutated graph.
C3_RoundTrip ==
    /\ rt.phase = "undone" => currentDialog = rt.pre
    /\ rt.phase = "redone" => currentDialog = rt.post

\* C3 as amended: after saveToHistory, one mutation, a second saveToHistory
\* and undo, the live graph is the graph of the first save; after a redo it
\* is the mutated graph.
C3_RoundTripResaved ==
    /\ rt.phase = "undone2" => currentDialog = rt.pre
    /\ rt.phase = "redone2" => currentDialog = rt.post

C3_Witness ==
    /\ rt.phase = "redone2"
    /\ rt.pre # rt.post
    /\ currentDialog = rt.post

\* C4: after a run of k <= 50 saves and then n undos, 0 < n < k, the live
\* graph is the graph that was live at the (k-n)-th save of the run.
C4_UndoRun ==
    (saves <= MaxHistory /\ 0 < undos /\ undos < saves) =>
        currentDialog = run[saves - undos]

C4_Witness ==
    /\ saves = 3
    /\ undos = 2
    /\ lastOp.op = "undo"
    /\ run[1] # run[2]
    /\ currentDialog = run[1]

\* C5: the history never holds more than 50 snapshots; a save at 50
\* snapshots with the index at the last one drops the oldest, keeps the
\* other 49 in order before the new snapshot, and leaves the index at 49,
\* on the new snapshot.
C5_HistoryCap ==
    [][ /\ Len(history') <= MaxHistory
        /\ (/\ lastOp'.op = "saveToHistory"
            /\ Len(history) = MaxHistory
            /\ historyIndex = MaxHistory - 1)
           => /\ history' = Append(Tail(history), currentDialog)
              /\ historyIndex' = MaxHistory - 1
              /\ history'[historyIndex' + 1] = currentDialog' ]_vars

C5_Witness ==
    /\ lastOp.op = "saveToHistory"
    /\ saves > MaxHistory
    /\ Len(history) = MaxHistory
    /\ historyIndex = MaxHistory - 1
    /\ history[1] # history[MaxHistory]

\* C6: a save while the index i is below the last snapshot drops every
\* snapshot beyond i, stores the new one at i+1 as the last, and a redo
\* right after it changes nothing.
C6_LinearHistory ==
    [][ (/\ lastOp'.op = "saveToHistory"
         /\ currentDialog # Null
         /\ historyIndex < Len(history) - 1)
        => /\ history' = Append(SubSeq(history, 1, historyIndex + 1), currentDialog)
           /\ historyIndex' = historyIndex + 1
           /\ historyIndex' = Len(history') - 1
           /\ redo(StNext) = StNext ]_vars

C6_Witness ==
    /\ lastOp.op = "saveToHistory"
    /\ saves = 1
    /\ budget.undo < MaxUndoNav
    /\ budget.redo = MaxUndoNav
    /\ historyIndex = Len(history) - 1
    /\ historyIndex >= 1

\* C7: undo with the history empty or the index at the first snapshot, and
\* redo with the index at the last snapshot or the history empty, leave the
\* live graph, the history and the index as they are.
C7_BoundaryNoOp ==
    [][ (\/ lastOp'.op = "undo" /\ historyIndex <= 0
         \/ lastOp'.op = "redo" /\ historyIndex >= Len(history) - 1)
        => UNCHANGED <<currentDialog, history, historyIndex>> ]_vars

C7_Witness ==
    /\ lastOp.op = "undo"
    /\ historyIndex = 0
    /\ Len(history) >= 2
    /\ currentDialog # history[1]

LkRestored ==
    /\ currentDialog.nodes[lk.p].childNodeIds = lk.pc
    /\ currentDialog.nodes[lk.c].parentNodeIds = lk.cp

C9_MissingNoOp ==
    [][ (\/ lastOp'.op \in {"updateNode", "deleteNode"} /\ Missing(lastOp'.a)
         \/ /\ lastOp'.op \in {"linkNodes", "unlinkNodes"}
            /\ (Missing(lastOp'.a) \/ Missing(lastOp'.b)))
        => UNCHANGED <<currentDialog, history, historyIndex>> ]_vars

C9_Witness ==
    /\ lastOp.op = "linkNodes"
    /\ currentDialog # Null
    /\ has(currentDialog, lastOp.a)
    /\ ~has(currentDialog, lastOp.b)
    /\ Len(history) > 0

\* C10: deleteNode(id) of an existing node removes the key id, leaves no
\* node listing id as a child or as a parent, and leaves every other entry
\* of the edge lists as it was.
C10_DeleteStrips ==
    [][ (lastOp'.op = "deleteNode" /\ ~Missing(lastOp'.a))
        => LET id == lastOp'.a
               before == currentDialog.nodes
               after == currentDialog'.nodes
           IN  /\ DOMAIN after = DOMAIN before \ {id}
               /\ \A k \in DOMAIN after :
                     /\ ~includes(after[k].childNodeIds, id)
                     /\ ~includes(after[k].parentNodeIds, id)
                     /\ after[k].childNodeIds = filterOut(before[k].childNodeIds, id)
                     /\ after[k].parentNodeIds = filterOut(before[k].parentNodeIds, id) ]_vars

(***************************************************************************)
(* Loading a dialog wholesale: DialogMenu.handleOpen passes the dialog     *)
(* read from a file, LivePreview.handleFixRootNode a shallow copy of the   *)
(* live dialog.                                                            *)
(***************************************************************************)
\* the edge lists a stored node may hold: at most one id, existing or not
StoredLists == {<<>>} \cup {<<k>> : k \in NodeIds}

\* the dialogs a file may hold: any subset of the node ids as keys, any
\* edge lists, and a rootNodeId that is null, names a node, or dangles
LoadableDialogs ==
    UNION { { [id |-> 1, rootNodeId |-> r, updatedAt |-> 0,
               nodes |-> [k \in ks |-> [id |-> k, text |-> 0,
                                        childNodeIds |-> cs[k],
                                        parentNodeIds |-> ps[k],
                                        updatedAt |-> 0]]] :
                r \in {NoNode} \cup NodeIds,
                cs \in [ks -> StoredLists], ps \in [ks -> StoredLists] } :
            ks \in SUBSET NodeIds }

LoadDialog ==
    /\ \E dialog \in LoadableDialogs :
          Step("load", Op("loadDialog", dialog.rootNodeId, dialog),
               setCurrentDialog(St, dialog), now, TRUE)
    /\ UNCHANGED <<nextNodeId, nextDialogId>>

FixRootNode ==
    /\ currentDialog # Null
    /\ Step("load", Op("fixRootNode", currentDialog.rootNodeId, currentDialog),
            setCurrentDialog(St, currentDialog), now, TRUE)
    /\ UNCHANGED <<nextNodeId, nextDialogId>>

InitLoad ==
    /\ InitStore
    /\ budget = [load |-> MaxDialogs + 1, mut |-> 1, save |-> 0,
                 undo |-> 0, redo |-> 0]

NextLoad ==
    \/ LoadDialog
    \/ FixRootNode
    \/ DeleteNode

SpecLoad == InitLoad /\ [][NextLoad]_vars

MaxTreeNodes == 3
MaxChildren == 2

TreeIds == 1 .. MaxTreeNodes
Undefined == "undefined"

reverse(arr) == [i \in 1 .. Len(arr) |-> arr[Len(arr) + 1 - i]]

pop(arr) == SubSeq(arr, 1, Len(arr) - 1)

RECURSIVE objectKeysFrom(_)
objectKeysFrom(ks) ==
    IF ks = {} THEN <<>>
    ELSE LET k == CHOOSE x \in ks : \A y \in ks : x <= y
         IN  <<k>> \o objectKeysFrom(ks \ {k})

objectKeys(nodes) == objectKeysFrom(DOMAIN nodes)

\* parentMap.get(childId): for each node in key order, its id once for each
\* time its childNodeIds lists childId
RECURSIVE parentMapFrom(_, _, _, _)
parentMapFrom(nodes, keys, i, childId) ==
    IF i > Len(keys) THEN <<>>
    ELSE [j \in 1 .. Len(SelectSeq(nodes[keys[i]].childNodeIds, LAMBDA e : e = childId))
              |-> keys[i]]
         \o parentMapFrom(nodes, keys, i + 1, childId)

parentMap(nodes, childId) == parentMapFrom(nodes, objectKeys(nodes), 1, childId)

\* buildPathBackwards and its loop over the parents; s = [path, visited]
RECURSIVE buildPathBackwards(_, _, _, _)
RECURSIVE tryParents(_, _, _, _, _)
buildPathBackwards(nodes, rootNodeId, nodeId, s) ==
    IF nodeId \in s.visited
    THEN [found |-> FALSE, path |-> s.path, visited |-> s.visited]
    ELSE LET visited == s.visited \cup {nodeId} IN
         IF nodeId \notin DOMAIN nodes
         THEN [found |-> FALSE, path |-> s.path, visited |-> visited]
         ELSE IF nodeId = rootNodeId
         THEN [found |-> TRUE, path |-> push(s.path, nodeId), visited |-> visited]
         ELSE LET r == tryParents(nodes, rootNodeId, parentMap(nodes, nodeId), 1,
                                  [path |-> push(s.path, nodeId), visited |-> visited])
              IN  IF r.found THEN r
                  ELSE [found |-> FALSE, path |-> pop(r.path), visited |-> r.visited]

tryParents(nodes, rootNodeId, parents, i, s) ==
    IF i > Len(parents)
    THEN [found |-> FALSE, path |-> s.path, visited |-> s.visited]
    ELSE LET r == buildPathBackwards(nodes, rootNodeId, parents[i], s)
         IN  IF r.found THEN r
             ELSE tryParents(nodes, rootNodeId, parents, i + 1,
                             [path |-> r.path, visited |-> r.visited])

\* dfs and its loop over the children; s = [path, visited]
RECURSIVE dfs(_, _, _, _)
RECURSIVE tryChildren(_, _, _, _, _)
dfs(nodes, targetNodeId, nodeId, s) ==
    IF nodeId \in s.visited
    THEN [found |-> FALSE, path |-> s.path, visited |-> s.visited]
    ELSE LET visited == s.visited \cup {nodeId} IN
         IF nodeId \notin DOMAIN nodes
         THEN [found |-> FALSE, path |-> s.path, visited |-> visited]
         ELSE IF nodeId = targetNodeId
         THEN [found |-> TRUE, path |-> push(s.path, nodeId), visited |-> visited]
         ELSE LET r == tryChildren(nodes, targetNodeId, nodes[nodeId].childNodeIds, 1,
                                   [path |-> push(s.path, nodeId), visited |-> visited])
              IN  IF r.found THEN r
                  ELSE [found |-> FALSE, path |-> pop(r.path), visited |-> r.visited]

tryChildren(nodes, targetNodeId, children, i, s) ==
    IF i > Len(children)
    THEN [found |-> FALSE, path |-> s.path, visited |-> s.visited]
    ELSE LET r == dfs(nodes, targetNodeId, children[i], s)
         IN  IF r.found THEN r
             ELSE tryChildren(nodes, targetNodeId, children, i + 1,
                              [path |-> r.path, visited |-> r.visited])

\* mutant: returns the backward walk as it was built, target first
getNodePath_notReversed(nodes, rootNodeId, targetNodeId) ==
    IF rootNodeId = NoNode \/ rootNodeId \notin DOMAIN nodes
       \/ targetNodeId \notin DOMAIN nodes
    THEN <<>>
    ELSE IF rootNodeId = targetNodeId THEN <<rootNodeId>>
    ELSE LET back == buildPathBackwards(nodes, rootNodeId, targetNodeId,
                                        [path |-> <<>>, visited |-> {}])
         IN  IF back.found THEN back.path
             ELSE LET fwd == dfs(nodes, targetNodeId, rootNodeId,
                                 [path |-> <<>>, visited |-> {}])
                  IN  IF fwd.found THEN fwd.path ELSE <<>>

\* mutant: finds the target only among the children of the root
getNodePath_directChild(nodes, rootNodeId, targetNodeId) ==
    IF rootNodeId = NoNode \/ rootNodeId \notin DOMAIN nodes
       \/ targetNodeId \notin DOMAIN nodes
    THEN <<>>
    ELSE IF rootNodeId = targetNodeId THEN <<rootNodeId>>
    ELSE IF includes(nodes[rootNodeId].childNodeIds, targetNodeId)
    THEN <<rootNodeId, targetNodeId>>
    ELSE <<>>

getNodePath(nodes, rootNodeId, targetNodeId) ==
    IF rootNodeId = NoNode \/ rootNodeId \notin DOMAIN nodes
       \/ targetNodeId \notin DOMAIN nodes
    THEN <<>>
    ELSE IF rootNodeId = targetNodeId THEN <<rootNodeId>>
    ELSE LET back == buildPathBackwards(nodes, rootNodeId, targetNodeId,
                                        [path |-> <<>>, visited |-> {}])
         IN  IF back.found THEN reverse(back.path)
             ELSE LET fwd == dfs(nodes, targetNodeId, rootNodeId,
                                 [path |-> <<>>, visited |-> {}])
                  IN  IF fwd.found THEN fwd.path ELSE <<>>

(***************************************************************************)
(* The graphs the path functions are applied to.                           *)
(***************************************************************************)
\* the lists of at most n distinct ids
RECURSIVE DistinctLists(_, _)
DistinctLists(ids, n) ==
    IF n = 0 THEN {<<>>}
    ELSE LET shorter == DistinctLists(ids, n - 1)
         IN  shorter \cup {Append(l, x) : l \in {m \in shorter : Len(m) = n - 1},
                                          x \in ids}

ChildLists == {l \in DistinctLists(TreeIds, MaxChildren) :
                  \A i, j \in DOMAIN l : i # j => l[i] # l[j]}

\* the parentNodeIds that mirror the child lists cs: the nodes that list k,
\* in key order
mirrored(cs, k) == SelectSeq(objectKeysFrom(DOMAIN cs), LAMBDA p : includes(cs[p], k))

DialogKind == [type |-> Undefined, speaker |-> "NPC"]

\* a dialog whose nodes have the given kinds, the child lists cs and
\* mirrored parent lists
treeDialog(root, kinds, cs) ==
    [id |-> 1, rootNodeId |-> root, updatedAt |-> 0,
     nodes |-> [k \in DOMAIN cs |->
                   kinds[k] @@ [id |-> k, childNodeIds |-> cs[k],
                                parentNodeIds |-> mirrored(cs, k)]]]

\* graphs of one to MaxTreeNodes dialogue nodes; a child list may name a
\* node that does not exist
PathDialogs(n) ==
    { treeDialog(NoNode, [k \in 1 .. n |-> DialogKind], cs) :
        cs \in [1 .. n -> ChildLists] }

TreeStart(dialogs) ==
    /\ currentDialog \in dialogs
    /\ history = <<>>
    /\ historyIndex = -1
    /\ now = 0
    /\ nextNodeId = 1
    /\ nextDialogId = 1
    /\ lastOp = Op("create", 0, 0)
    /\ budget = [load |-> 0, mut |-> 0, save |-> 0, undo |-> 0, redo |-> 0]
    /\ rt = RtIdle
    /\ lk = LkIdle
    /\ run = <<>>
    /\ saves = 0
    /\ undos = 0
    /\ chat = ChatIdle

\* a call of a function on the live graph, and its result
Call(name, a, b, out) ==
    /\ lastOp' = [op |-> name, a |-> a, b |-> b, out |-> out]
    /\ UNCHANGED <<currentDialog, history, historyIndex, now, nextNodeId,
                   nextDialogId, budget, rt, lk, run, saves, undos, chat>>

GetNodePath ==
    \E rootNodeId \in {NoNode} \cup TreeIds, targetNodeId \in TreeIds :
        Call("getNodePath", rootNodeId, targetNodeId,
             getNodePath(currentDialog.nodes, rootNodeId, targetNodeId))

InitPath == \E n \in TreeIds : TreeStart(PathDialogs(n))

NextPath == GetNodePath

SpecPath == InitPath /\ [][NextPath]_vars

\* the nodes reachable from the nodes of S along childNodeIds
RECURSIVE ReachFrom(_, _)
ReachFrom(nodes, S) ==
    LET S2 == S \cup {c \in DOMAIN nodes : \E p \in S : includes(nodes[p].childNodeIds, c)}
    IN  IF S2 = S THEN S ELSE ReachFrom(nodes, S2)

IsPath(nodes, p, rootNodeId, targetNodeId) ==
    /\ p[1] = rootNodeId
    /\ p[Len(p)] = targetNodeId
    /\ \A i \in DOMAIN p : p[i] \in DOMAIN nodes
    /\ \A i, j \in DOMAIN p : i # j => p[i] # p[j]
    /\ \A i \in 1 .. (Len(p) - 1) : includes(nodes[p[i]].childNodeIds, p[i + 1])

\* C12: a non-empty result of getNodePath(root, target) starts at root, ends
\* at target, holds existing nodes without repetition, each listing the
\* next in its childNodeIds; getNodePath(root, root) = [root].
C12_PathSound ==
    lastOp.op = "getNodePath" =>
        /\ lastOp.out # <<>>
              => IsPath(currentDialog.nodes, lastOp.out, lastOp.a, lastOp.b)
        /\ (lastOp.a = lastOp.b /\ lastOp.a \in DOMAIN currentDialog.nodes)
              => lastOp.out = <<lastOp.a>>

C12_Witness ==
    /\ lastOp.op = "getNodePath"
    /\ Len(lastOp.out) = 3
    /\ \E k \in DOMAIN currentDialog.nodes :
          Len(currentDialog.nodes[k].parentNodeIds) = 2
    /\ includes(currentDialog.nodes[lastOp.b].childNodeIds, lastOp.a)

\* C13: getNodePath returns the empty sequence exactly when root is null or
\* missing, target is missing, or target is not reachable from root along
\* childNodeIds; the forward search gives the result only when the backward
\* walk found nothing.
C13_PathComplete ==
    lastOp.op = "getNodePath" =>
        LET nodes == currentDialog.nodes
            ok == /\ lastOp.a # NoNode
                  /\ lastOp.a \in DOMAIN nodes
                  /\ lastOp.b \in DOMAIN nodes
        IN  /\ lastOp.out = <<>>
                  <=> (~ok \/ lastOp.b \notin ReachFrom(nodes, {lastOp.a}))
            /\ (ok /\ lastOp.a # lastOp.b)
                  => LET back == buildPathBackwards(nodes, lastOp.a, lastOp.b,
                                                    [path |-> <<>>, visited |-> {}])
                     IN  back.found => lastOp.out = reverse(back.path)

C13_Witness ==
    /\ lastOp.op = "getNodePath"
    /\ lastOp.out = <<>>
    /\ lastOp.a \in DOMAIN currentDialog.nodes
    /\ lastOp.b \in DOMAIN currentDialog.nodes
    /\ lastOp.a \in ReachFrom(currentDialog.nodes, {lastOp.b})
    /\ \E k \in DOMAIN currentDialog.nodes :
          \E c \in Elems(currentDialog.nodes[k].childNodeIds) :
              c \notin DOMAIN currentDialog.nodes

(***************************************************************************)
(* Conversation history and reachable nodes (src/src/utils/nodeTree.ts).   *)
(***************************************************************************)
findActualRootNode(nodes, rootNodeId) ==
    IF rootNodeId # NoNode /\ rootNodeId \in DOMAIN nodes THEN rootNodeId
    ELSE LET free == SelectSeq(objectKeys(nodes),
                               LAMBDA k : Len(nodes[k].parentNodeIds) = 0)
         IN  IF free # <<>> THEN free[1] ELSE NoNode

\* node.type || 'dialog'
typeOrDialog(node) == IF node.type = Undefined THEN "dialog" ELSE node.type

\* the filter of getConversationHistory
keptInHistory(node) ==
    \/ typeOrDialog(node) = "dialog"
    \/ node.type = Undefined /\ node.speaker \in {"NPC", "player"}

\* mutant: keeps every node of the path
getConversationHistory_unfiltered(nodes, rootNodeId, currentNodeId) ==
    getNodePath(nodes, findActualRootNode(nodes, rootNodeId), currentNodeId)

getConversationHistory(nodes, rootNodeId, currentNodeId) ==
    LET fullPath == getNodePath(nodes, findActualRootNode(nodes, rootNodeId),
                                currentNodeId)
    IN  SelectSeq(fullPath, LAMBDA k : keptInHistory(nodes[k]))

isSpecialNode(node) == node.type # Undefined /\ node.type # "dialog"

\* the loop that fills orderedResult after the path: for each path node in
\* order, its special children that are not yet in the result
RECURSIVE addSpecialChildren(_, _, _, _, _, _)
addSpecialChildren(nodes, conversationPath, i, j, pathNodeIds, orderedResult) ==
    IF i > Len(conversationPath) THEN orderedResult
    ELSE LET children == nodes[conversationPath[i]].childNodeIds IN
         IF j > Len(children)
         THEN addSpecialChildren(nodes, conversationPath, i + 1, 1, pathNodeIds,
                                 orderedResult)
         ELSE LET childId == children[j]
                  add == /\ childId \in DOMAIN nodes
                         /\ isSpecialNode(nodes[childId])
                         /\ childId \notin pathNodeIds
                         /\ ~includes(orderedResult, childId)
              IN  addSpecialChildren(nodes, conversationPath, i, j + 1, pathNodeIds,
                                     IF add THEN push(orderedResult, childId)
                                     ELSE orderedResult)

getAllReachableNodes(nodes, rootNodeId, targetNodeId) ==
    IF rootNodeId = NoNode \/ rootNodeId \notin DOMAIN nodes
       \/ targetNodeId \notin DOMAIN nodes
    THEN <<>>
    ELSE LET conversationPath == getConversationHistory(nodes, rootNodeId, targetNodeId)
         IN  addSpecialChildren(nodes, conversationPath, 1, 1,
                                Elems(conversationPath), conversationPath)

(***************************************************************************)
(* Graphs of dialogue and side-effect nodes: every child list names        *)
(* existing other nodes.                                                   *)
(***************************************************************************)
TypedDialogKind == [type |-> "dialog", speaker |-> "player"]

SetVariableKind == [type |-> "setVariable", speaker |-> "NPC"]

ReachKinds == {DialogKind, TypedDialogKind, SetVariableKind}

LinkLists(ids) == {l \in DistinctLists(ids, MaxChildren) :
                      \A i, j \in DOMAIN l : i # j => l[i] # l[j]}

ReachDialogs(n) ==
    { treeDialog(NoNode, kinds, cs) :
        kinds \in [1 .. n -> ReachKinds],
        cs \in {f \in [1 .. n -> LinkLists(1 .. n)] :
                   \A k \in 1 .. n : ~includes(f[k], k)} }

GetConversationHistory ==
    \E rootNodeId \in {NoNode} \cup DOMAIN currentDialog.nodes,
       currentNodeId \in DOMAIN currentDialog.nodes :
        Call("getConversationHistory", rootNodeId, currentNodeId,
             getConversationHistory(currentDialog.nodes, rootNodeId, currentNodeId))

GetAllReachableNodes ==
    \E rootNodeId \in {NoNode} \cup DOMAIN currentDialog.nodes,
       targetNodeId \in DOMAIN currentDialog.nodes :
        Call("getAllReachableNodes", rootNodeId, targetNodeId,
             getAllReachableNodes(currentDialog.nodes, rootNodeId, targetNodeId))

InitReach == \E n \in TreeIds : TreeStart(ReachDialogs(n))

NextReach ==
    \/ GetConversationHistory
    \/ GetAllReachableNodes

SpecReach == InitReach /\ [][NextReach]_vars

IsDialogue(node) == node.type \in {Undefined, "dialog"}

\* C14: every node getConversationHistory returns is a Dialogue node, and
\* the result is getNodePath from the resolved root to the target with the
\* side-effect nodes removed, in the order of the path.
C14_HistoryIsDialogue ==
    lastOp.op = "getConversationHistory" =>
        LET nodes == currentDialog.nodes
            resolved == IF lastOp.a # NoNode /\ lastOp.a \in DOMAIN nodes
                        THEN lastOp.a
                        ELSE IF \E k \in DOMAIN nodes : nodes[k].parentNodeIds = <<>>
                        THEN CHOOSE k \in DOMAIN nodes :
                                /\ nodes[k].parentNodeIds = <<>>
                                /\ \A j \in DOMAIN nodes :
                                      nodes[j].parentNodeIds = <<>> => k <= j
                        ELSE NoNode
            path == getNodePath(nodes, resolved, lastOp.b)
        IN  /\ \A i \in DOMAIN lastOp.out : IsDialogue(nodes[lastOp.out[i]])
            /\ lastOp.out = SelectSeq(path, LAMBDA k : IsDialogue(nodes[k]))

C14_Witness ==
    /\ lastOp.op = "getConversationHistory"
    /\ Len(lastOp.out) = 2
    /\ lastOp.a = NoNode
    /\ Len(getNodePath(currentDialog.nodes, lastOp.out[1], lastOp.b)) = 3

\* the side-effect nodes that are a child or a parent of a node of path
Attached(nodes, path) ==
    {k \in DOMAIN nodes :
        /\ ~IsDialogue(nodes[k])
        /\ \E p \in Elems(path) : \/ includes(nodes[p].childNodeIds, k)
                                  \/ includes(nodes[p].parentNodeIds, k)}

\* the side-effect children of the attached side-effect children of path
OneHopFurther(nodes, path) ==
    {k \in DOMAIN nodes :
        /\ ~IsDialogue(nodes[k])
        /\ \E c \in Attached(nodes, path) :
              /\ \E p \in Elems(path) : includes(nodes[p].childNodeIds, c)
              /\ includes(nodes[c].childNodeIds, k)}

\* C15: getAllReachableNodes returns, each once, the conversation path in
\* path order, then the side-effect nodes that are a child or a parent of a
\* path node and the side-effect children of those attached children, and
\* nothing else.
C15_ReachableNodes ==
    (lastOp.op = "getAllReachableNodes" /\ lastOp.a # NoNode) =>
        LET nodes == currentDialog.nodes
            path == getConversationHistory(nodes, lastOp.a, lastOp.b)
        IN  /\ \A i, j \in DOMAIN lastOp.out : i # j => lastOp.out[i] # lastOp.out[j]
            /\ Len(lastOp.out) >= Len(path)
            /\ SubSeq(lastOp.out, 1, Len(path)) = path
            /\ Elems(lastOp.out) = Elems(path) \cup Attached(nodes, path)
                                       \cup OneHopFurther(nodes, path)

(***************************************************************************)
(* Variables along a path (calculateVariables, src/src/utils/nodeTree.ts). *)
(* JavaScript values are tagged with their typeof; the strings of the      *)
(* model are not numerals, so their numeric value is NaN.                  *)
(***************************************************************************)
Num(n) == [t |-> "number", v |-> n]

NaN == [t |-> "number", nan |-> TRUE]

Str(s) == [t |-> "string", s |-> s]

Undef == [t |-> "undefined"]

isNaN(v) == v.t = "number" /\ "nan" \in DOMAIN v

\* ToBoolean
truthy(v) ==
    CASE v.t = "undefined" -> FALSE
      [] v.t = "string" -> v.s # ""
      [] OTHER -> ~isNaN(v) /\ v.v # 0

\* ToNumber
toNumber(v) ==
    CASE v.t = "number" -> v
      [] v.t = "string" /\ v.s = "" -> Num(0)
      [] OTHER -> NaN

Digit(d) == <<"0", "1", "2", "3", "4", "5", "6", "7", "8", "9">>[d + 1]

RECURSIVE decimal(_)
decimal(n) == IF n < 10 THEN Digit(n) ELSE decimal(n \div 10) \o Digit(n % 10)

\* ToString
toString(v) ==
    CASE v.t = "string" -> v.s
      [] v.t = "undefined" -> "undefined"
      [] isNaN(v) -> "NaN"
      [] OTHER -> IF v.v < 0 THEN "-" \o decimal(0 - v.v) ELSE decimal(v.v)

\* a + b
jsAdd(a, b) ==
    IF a.t = "string" \/ b.t = "string" THEN Str(toString(a) \o toString(b))
    ELSE LET x == toNumber(a)
             y == toNumber(b)
         IN  IF isNaN(x) \/ isNaN(y) THEN NaN ELSE Num(x.v + y.v)

\* a - b
jsSub(a, b) ==
    LET x == toNumber(a)
        y == toNumber(b)
    IN  IF isNaN(x) \/ isNaN(y) THEN NaN ELSE Num(x.v - y.v)

\* -a
jsNeg(a) == LET x == toNumber(a) IN IF isNaN(x) THEN NaN ELSE Num(0 - x.v)

EmptyVariables == [name \in {} |-> Undef]

\* variables[name]
lookup(variables, name) ==
    IF name \in DOMAIN variables THEN variables[name] ELSE Undef

\* variables[name] = value
assign(variables, name, value) == (name :> value) @@ variables

\* the body of the loop of calculateVariables
applyNode(variables, node) ==
    IF node.type = "setVariable" /\ node.variableName # Undefined
    THEN IF node.variableValue # Undef
         THEN assign(variables, node.variableName, node.variableValue)
         ELSE variables
    ELSE IF node.type = "changeVariable" /\ node.variableName # Undefined
    THEN LET currentValue == lookup(variables, node.variableName)
             changeValue == IF truthy(node.variableValue) THEN node.variableValue
                            ELSE Num(0)
         IN  IF currentValue.t = "number" /\ changeValue.t = "number"
             THEN IF node.variableOperation = "subtract"
                  THEN assign(variables, node.variableName,
                              jsSub(currentValue, changeValue))
                  ELSE assign(variables, node.variableName,
                              jsAdd(currentValue, changeValue))
             ELSE IF currentValue = Undef
             THEN IF node.variableOperation = "subtract"
                  THEN assign(variables, node.variableName, jsNeg(changeValue))
                  ELSE assign(variables, node.variableName, changeValue)
             ELSE variables
    ELSE variables

RECURSIVE applyNodes(_, _, _, _)
applyNodes(nodes, allReachableNodes, i, variables) ==
    IF i > Len(allReachableNodes) THEN variables
    ELSE applyNodes(nodes, allReachableNodes, i + 1,
                    applyNode(variables, nodes[allReachableNodes[i]]))

calculateVariables(nodes, rootNodeId, currentNodeId) ==
    applyNodes(nodes, getAllReachableNodes(nodes, rootNodeId, currentNodeId), 1,
               EmptyVariables)

(***************************************************************************)
(* Graphs with variable nodes: nodes in creation order, links from an      *)
(* earlier node to a later one.                                            *)
(***************************************************************************)
VariableValues == {Undef, Num(5), Str("s")}

PlainKind ==
    [type |-> Undefined, speaker |-> "NPC", variableName |-> Undefined,
     variableValue |-> Undef, variableOperation |-> Undefined]

VariableKinds ==
    {PlainKind}
    \cup {[type |-> "setVariable", speaker |-> "NPC", variableName |-> "x",
           variableValue |-> v, variableOperation |-> "set"] :
            v \in VariableValues}
    \cup {[type |-> "setVariable", speaker |-> "NPC", variableName |-> Undefined,
           variableValue |-> Num(5), variableOperation |-> "set"]}
    \cup {[type |-> "changeVariable", speaker |-> "NPC", variableName |-> "x",
           variableValue |-> v, variableOperation |-> o] :
            v \in VariableValues, o \in {"add", "subtract"}}

VariableDialogs(n) ==
    { treeDialog(1, kinds, cs) :
        kinds \in [1 .. n -> VariableKinds],
        cs \in {f \in [1 .. n -> LinkLists(1 .. n)] :
                   \A k \in 1 .. n : \A i \in DOMAIN f[k] : f[k][i] > k} }

CalculateVariables ==
    \E rootNodeId \in {NoNode} \cup DOMAIN currentDialog.nodes,
       currentNodeId \in DOMAIN currentDialog.nodes :
        Call("calculateVariables", rootNodeId, currentNodeId,
             calculateVariables(currentDialog.nodes, rootNodeId, currentNodeId))

InitVariables == \E n \in TreeIds : TreeStart(VariableDialogs(n))

NextVariables == CalculateVariables

SpecVariables == InitVariables /\ [][NextVariables]_vars

\* One step of the fold C16 describes.  A node without a name or a
\* SetVariable without a value writes nothing; an absent change value is 0.
ClaimedStep(variables, node) ==
    IF node.variableName = Undefined THEN variables
    ELSE LET name == node.variableName
             current == lookup(variables, name)
             value == IF node.variableValue = Undef THEN Num(0)
                      ELSE node.variableValue
         IN  CASE node.type = "setVariable" ->
                     IF node.variableValue = Undef THEN variables
                     ELSE assign(variables, name, node.variableValue)
               [] node.type = "changeVariable" /\ current = Undef ->
                     assign(variables, name,
                            IF node.variableOperation = "subtract"
                            THEN jsSub(Num(0), value) ELSE jsAdd(Num(0), value))
               [] node.type = "changeVariable" /\ current.t = "number" ->
                     assign(variables, name,
                            IF node.variableOperation = "subtract"
                            THEN jsSub(current, value) ELSE jsAdd(current, value))
               [] OTHER -> variables

RECURSIVE ClaimedFold(_, _, _, _)
ClaimedFold(nodes, list, i, variables) ==
    IF i > Len(list) THEN variables
    ELSE ClaimedFold(nodes, list, i + 1, ClaimedStep(variables, nodes[list[i]]))

\* C16: calculateVariables is the left fold over getAllReachableNodes, from
\* the empty mapping: SetVariable overwrites, ChangeVariable on an unset
\* variable gives 0 + value or 0 - value, on a number adds or subtracts, on
\* a non-numeric current value changes nothing; without SetVariable and
\* ChangeVariable nodes the mapping is empty.
C16_VariablesFold ==
    lastOp.op = "calculateVariables" =>
        LET nodes == currentDialog.nodes
            list == getAllReachableNodes(nodes, lastOp.a, lastOp.b)
        IN  /\ lastOp.out = ClaimedFold(nodes, list, 1, EmptyVariables)
            /\ (\A i \in DOMAIN list :
                    nodes[list[i]].type \notin {"setVariable", "changeVariable"})
                  => lastOp.out = EmptyVariables

\* the same, over nodes whose change values are numbers or absent
C16_NumericFold ==
    (/\ lastOp.op = "calculateVariables"
     /\ \A k \in DOMAIN currentDialog.nodes :
           currentDialog.nodes[k].type = "changeVariable"
              => currentDialog.nodes[k].variableValue.t # "string") =>
        C16_VariablesFold


\* a ChangeVariable with a string value met a numeric variable and left it
C16_StringChangeIgnored ==
    /\ lastOp.op = "calculateVariables"
    /\ lastOp.out = ("x" :> Num(5))
    /\ \E k \in DOMAIN currentDialog.nodes :
          /\ currentDialog.nodes[k].type = "changeVariable"
          /\ currentDialog.nodes[k].variableValue = Str("s")
          /\ includes(getAllReachableNodes(currentDialog.nodes, lastOp.a, lastOp.b), k)

(***************************************************************************)
(* The Ren'Py compiler (src/src/utils/renpyExport.ts).  A line of the      *)
(* document is its indentation, its kind and the node it comes from; the   *)
(* lines before `label start:` (comment, characters, transform, variable   *)
(* initialisation) hold no node content and are left out.  Nodes have a    *)
(* non-empty text, a variable name, a condition, or a background image     *)
(* where their type reads one, and no avatar.                              *)
(***************************************************************************)
ExportLine(indent, kind, node) == [indent |-> indent, kind |-> kind, node |-> node]

\* lines.push(`${indentStr}...`)
pushLine(st, indent, kind, node) ==
    [st EXCEPT !.lines = Append(@, ExportLine(indent, kind, node))]

\* lines.push('')
pushBlank(st) == pushLine(st, 0, "blank", NoNode)

\* lines.push(`${indentStr}    pass`); lines.push('')
pushPass(st, indent) == pushBlank(pushLine(st, indent, "pass", NoNode))

withVisited(st, visited) == [st EXCEPT !.visited = visited]

\* referencedLabels.add(id); lines.push(`${indentStr}jump ${labelName}`); lines.push('')
pushJump(st, indent, id) ==
    pushBlank(pushLine([st EXCEPT !.referencedLabels = pushUnique(@, id)],
                       indent, "jump", id))

existing(nodes, ids) == SelectSeq(ids, LAMBDA id : id \in DOMAIN nodes)

\* childType === 'dialog' && (speaker === 'NPC' || speaker === 'player')
isDialogNode(node) ==
    typeOrDialog(node) = "dialog" /\ node.speaker \in {"NPC", "player"}

specialOf(nodes, ids) ==
    SelectSeq(existing(nodes, ids), LAMBDA id : ~isDialogNode(nodes[id]))

dialogOf(nodes, ids) ==
    SelectSeq(existing(nodes, ids), LAMBDA id : isDialogNode(nodes[id]))

RECURSIVE flatten(_, _)
flatten(lists, i) ==
    IF i > Len(lists) THEN <<>> ELSE lists[i] \o flatten(lists, i + 1)

\* the children of the NPC grandparents of node, in the order of the loops
grandParentChildren(nodes, node) ==
    LET parents == existing(nodes, node.parentNodeIds)
        grand == SelectSeq(
                     existing(nodes, flatten([i \in DOMAIN parents |->
                                                 nodes[parents[i]].parentNodeIds], 1)),
                     LAMBDA id : nodes[id].speaker = "NPC")
    IN  flatten([i \in DOMAIN grand |-> nodes[grand[i]].childNodeIds], 1)

\* the scene lines an NPC line emits for setBackground nodes among ids
RECURSIVE sceneScan(_, _, _, _, _, _)
sceneScan(nodes, ids, i, st, indent, withDissolve) ==
    IF i > Len(ids) THEN st
    ELSE LET childId == ids[i]
             emit == /\ childId \in DOMAIN nodes
                     /\ nodes[childId].type = "setBackground"
                     /\ nodes[childId].backgroundImage # Undefined
                     /\ nodes[childId].backgroundImage \notin st.processedScenes
                     /\ childId \notin st.emittedNodes
             s1 == pushLine(st, indent, "stmt", childId)
             s2 == IF withDissolve THEN pushLine(s1, indent, "with", childId) ELSE s1
             s3 == [pushBlank(s2) EXCEPT
                       !.processedScenes = @ \cup {nodes[childId].backgroundImage},
                       !.emittedNodes = @ \cup {childId}]
         IN  sceneScan(nodes, ids, i + 1, IF emit THEN s3 ELSE st, indent, withDissolve)

\* the line of an NPC node, after the scene changes that precede it
npcLine(nodes, node, st, indent) ==
    LET s0 == [st EXCEPT !.processedScenes = {}]
        s1 == sceneScan(nodes, node.childNodeIds, 1, s0, indent, TRUE)
        s2 == sceneScan(nodes, grandParentChildren(nodes, node), 1, s1, indent, FALSE)
    IN  pushBlank(pushLine(s2, indent, "say", node.id))

\* the immediate effect of special nodes, without their children
RECURSIVE immediateEffects(_, _, _, _, _)
immediateEffects(nodes, ids, i, st, indent) ==
    IF i > Len(ids) THEN st
    ELSE LET id == ids[i]
             specialType == typeOrDialog(nodes[id])
             next == CASE specialType = "setVariable" ->
                              pushBlank(pushLine(st, indent, "stmt", id))
                       [] specialType = "setBackground"
                             /\ nodes[id].backgroundImage # Undefined ->
                              IF id \notin st.emittedNodes
                              THEN [pushBlank(pushLine(st, indent, "stmt", id))
                                       EXCEPT !.emittedNodes = @ \cup {id}]
                              ELSE st
                       [] OTHER -> st
         IN  immediateEffects(nodes, ids, i + 1, next, indent)

RECURSIVE convertNodeToRenPy(_, _, _, _, _, _, _)

\* ids.forEach(id => lines.push(...convertNodeToRenPy(id, ...)))
RECURSIVE convertEach(_, _, _, _, _, _, _)
convertEach(nodes, nodesNeedingLabels, ids, i, st, indent, stack) ==
    IF i > Len(ids) THEN st
    ELSE convertEach(nodes, nodesNeedingLabels, ids, i + 1,
                     convertNodeToRenPy(nodes, nodesNeedingLabels, ids[i], st, indent,
                                        FALSE, stack),
                     indent, stack)

\* `pass` when the conversion after `before` added no line
passIfNone(before, after, indent) ==
    IF Len(after.lines) = Len(before.lines) THEN pushPass(after, indent) ELSE after

\* the grandchildren of a player node shown inline: a jump for a node that
\* needs a label, the conversion of the node otherwise
RECURSIVE jumpOrConvert(_, _, _, _, _, _, _, _)
jumpOrConvert(nodes, nodesNeedingLabels, ids, i, st, indent, passIfEmpty, stack) ==
    IF i > Len(ids) THEN st
    ELSE LET grandChildId == ids[i]
             converted == convertNodeToRenPy(nodes, nodesNeedingLabels, grandChildId,
                                             st, indent, FALSE, stack)
             next == IF grandChildId \in nodesNeedingLabels
                     THEN pushJump(st, indent, grandChildId)
                     ELSE IF passIfEmpty THEN passIfNone(st, converted, indent)
                     ELSE converted
         IN  jumpOrConvert(nodes, nodesNeedingLabels, ids, i + 1, next, indent,
                           passIfEmpty, stack)

\* the choices of a menu; split: the grandchildren are separated into
\* special nodes (immediate effects) and dialog nodes
RECURSIVE menuChoices(_, _, _, _, _, _, _, _)
menuChoices(nodes, nodesNeedingLabels, ids, i, st, indent, split, stack) ==
    IF i > Len(ids) THEN st
    ELSE LET childId == ids[i]
             grand == nodes[childId].childNodeIds
             special == IF split THEN specialOf(nodes, grand) ELSE <<>>
             dialogs == IF split THEN dialogOf(nodes, grand) ELSE grand
             s1 == pushLine(st, indent + 1, "choice", childId)
             a == immediateEffects(nodes, special, 1, s1, indent + 2)
             b == jumpOrConvert(nodes, nodesNeedingLabels, dialogs, 1, a, indent + 2,
                                TRUE, stack)
             c == IF split /\ special = <<>> /\ dialogs = <<>>
                  THEN pushLine(b, indent + 2, "pass", NoNode) ELSE b
             s2 == IF Len(grand) > 0 THEN withVisited(c, st.visited)
                   ELSE pushLine(s1, indent + 2, "pass", NoNode)
             next == IF childId \in DOMAIN nodes /\ nodes[childId].speaker = "player"
                     THEN pushBlank(s2) ELSE st
         IN  menuChoices(nodes, nodesNeedingLabels, ids, i + 1, next, indent, split,
                         stack)

\* a player node shown as a line of its NPC parent, then its children
inlinePlayer(nodes, nodesNeedingLabels, playerNodeId, st, indent, stack) ==
    LET s1 == pushBlank(pushLine(st, indent, "say", playerNodeId))
    IN  withVisited(jumpOrConvert(nodes, nodesNeedingLabels,
                                  nodes[playerNodeId].childNodeIds, 1, s1, indent,
                                  FALSE, stack),
                    st.visited)

\* first child of a special node, with a note when there are several
followFirst(nodes, nodesNeedingLabels, node, st, indent, stack) ==
    IF Len(node.childNodeIds) = 0 THEN st
    ELSE convertNodeToRenPy(nodes, nodesNeedingLabels, node.childNodeIds[1],
                            IF Len(node.childNodeIds) = 1 THEN st
                            ELSE pushLine(st, indent, "comment", node.id),
                            indent, FALSE, stack)

\* an ifStatement node: header, true branch, `else:` and false branch
convertIf(nodes, nodesNeedingLabels, node, st, indent, stack) ==
    LET s1 == pushBlank(pushLine(st, indent, "if", node.id))
        s2 == IF Len(node.childNodeIds) >= 1
              THEN convertNodeToRenPy(nodes, nodesNeedingLabels, node.childNodeIds[1],
                                      s1, indent + 1, FALSE, stack)
              ELSE s1
    IN  IF Len(node.childNodeIds) >= 2
        THEN convertNodeToRenPy(nodes, nodesNeedingLabels, node.childNodeIds[2],
                                pushBlank(pushLine(s2, indent, "else", node.id)),
                                indent + 1, FALSE, stack)
        ELSE s2

\* one clause of a switchCase node whose branch is the child at position at
switchBranch(nodes, nodesNeedingLabels, node, at, st, indent, stack) ==
    IF at <= Len(node.childNodeIds)
    THEN passIfNone(st,
                    convertNodeToRenPy(nodes, nodesNeedingLabels,
                                       node.childNodeIds[at], st, indent + 1, FALSE,
                                       stack),
                    indent + 1)
    ELSE pushPass(st, indent + 1)

\* node.cases.forEach; the cases of the model name no node of their own
RECURSIVE switchCases(_, _, _, _, _, _, _)
switchCases(nodes, nodesNeedingLabels, node, index, st, indent, stack) ==
    IF index > node.cases THEN st
    ELSE switchCases(nodes, nodesNeedingLabels, node, index + 1,
                     switchBranch(nodes, nodesNeedingLabels, node, index,
                                  pushBlank(pushLine(st, indent,
                                                     IF index = 1 THEN "if" ELSE "elif",
                                                     node.id)),
                                  indent, stack),
                     indent, stack)

convertSwitch(nodes, nodesNeedingLabels, node, st, indent, stack) ==
    LET s1 == switchCases(nodes, nodesNeedingLabels, node, 1, st, indent, stack)
    IN  IF Len(node.childNodeIds) > node.cases
        THEN switchBranch(nodes, nodesNeedingLabels, node, node.cases + 1,
                          pushBlank(pushLine(s1, indent, "else", node.id)),
                          indent, stack)
        ELSE s1

\* a setBackground node: its scene line, then all its children
convertBackground(nodes, nodesNeedingLabels, node, st, indent, stack) ==
    LET s1 == IF node.id \notin st.emittedNodes /\ node.backgroundImage # Undefined
              THEN [pushBlank(pushLine(st, indent, "stmt", node.id))
                       EXCEPT !.emittedNodes = @ \cup {node.id}]
              ELSE st
    IN  withVisited(convertEach(nodes, nodesNeedingLabels, node.childNodeIds, 1, s1,
                                indent, stack),
                    st.visited)

\* the children of an NPC node that are not all player nodes
mixedChildren(nodes, nodesNeedingLabels, node, st, indent, stack) ==
    LET specialNodes == specialOf(nodes, node.childNodeIds)
        dialogNodes == dialogOf(nodes, node.childNodeIds)
        s1 == immediateEffects(nodes, specialNodes, 1, st, indent)
    IN  IF Len(dialogNodes) = 0 THEN s1
        ELSE IF Len(dialogNodes) = 1
        THEN IF nodes[dialogNodes[1]].speaker = "player"
             THEN inlinePlayer(nodes, nodesNeedingLabels, dialogNodes[1], s1, indent,
                               stack)
             ELSE convertNodeToRenPy(nodes, nodesNeedingLabels, dialogNodes[1], s1,
                                     indent, FALSE, stack)
        ELSE IF \A i \in DOMAIN dialogNodes : nodes[dialogNodes[i]].speaker = "player"
        THEN menuChoices(nodes, nodesNeedingLabels, dialogNodes, 1,
                         pushBlank(pushLine(s1, indent, "menu", node.id)), indent,
                         FALSE, stack)
        ELSE convertNodeToRenPy(nodes, nodesNeedingLabels, dialogNodes[1],
                                pushLine(s1, indent, "comment", node.id), indent,
                                FALSE, stack)

\* the children of an NPC node
npcChildren(nodes, nodesNeedingLabels, node, st, indent, stack) ==
    IF Len(node.childNodeIds) = 0 THEN st
    ELSE IF Len(node.childNodeIds) = 1
    THEN convertNodeToRenPy(nodes, nodesNeedingLabels, node.childNodeIds[1], st,
                            indent, FALSE, stack)
    ELSE IF \A id \in Elems(existing(nodes, node.childNodeIds)) :
                nodes[id].speaker = "player"
    THEN menuChoices(nodes, nodesNeedingLabels, node.childNodeIds, 1,
                     pushBlank(pushLine(st, indent, "menu", node.id)), indent, TRUE,
                     stack)
    ELSE mixedChildren(nodes, nodesNeedingLabels, node, st, indent, stack)

\* some parent has this player node as its only dialog child
parentHasSingleDialogChild(nodes, node) ==
    \E i \in DOMAIN node.parentNodeIds :
        LET parentId == node.parentNodeIds[i] IN
        /\ parentId \in DOMAIN nodes
        /\ SelectSeq(existing(nodes, nodes[parentId].childNodeIds),
                     LAMBDA id : keptInHistory(nodes[id])) = <<node.id>>

\* text.trim() on the texts of the model
trim(text) == IF text = " " THEN "" ELSE text

\* a player node outside a menu: its line or a comment unless its text is
\* blank, then its children
convertPlayer(nodes, nodesNeedingLabels, node, st, indent, stack) ==
    LET s1 == IF trim(node.text) = "" THEN st
              ELSE IF parentHasSingleDialogChild(nodes, node)
              THEN pushBlank(pushLine(st, indent, "say", node.id))
              ELSE pushLine(st, indent, "comment", node.id)
        specialChildren == specialOf(nodes, node.childNodeIds)
        dialogChildren == dialogOf(nodes, node.childNodeIds)
        s2 == withVisited(convertEach(nodes, nodesNeedingLabels, specialChildren, 1, s1,
                                      indent, stack),
                          st.visited)
        allPlayerChildren ==
            \A i \in DOMAIN dialogChildren : nodes[dialogChildren[i]].speaker = "player"
    IN  IF Len(node.childNodeIds) = 0 THEN pushBlank(s1)
        ELSE IF Len(dialogChildren) = 0 THEN s2
        ELSE IF ~allPlayerChildren /\ Len(dialogChildren) = 1
        THEN convertNodeToRenPy(nodes, nodesNeedingLabels, dialogChildren[1], s2,
                                indent, FALSE, stack)
        ELSE withVisited(convertEach(nodes, nodesNeedingLabels, dialogChildren, 1, s2,
                                     indent, stack),
                         st.visited)

\* observer: the call arrived at a node whose conversion is still running
arrive(st, nodeId, stack, how) ==
    IF nodeId \in {call[1] : call \in stack}
    THEN [st EXCEPT !.arrivals = @ \cup {[node |-> nodeId, how |-> how]}]
    ELSE st

convertNodeToRenPy(nodes, nodesNeedingLabels, nodeId, st, indent, isLabelDefinition, stack) ==
    IF st.overflow \/ nodeId \notin DOMAIN nodes THEN st
    ELSE IF nodeId \in nodesNeedingLabels /\ ~isLabelDefinition
    THEN pushJump(arrive(st, nodeId, stack, "jump"), indent, nodeId)
    ELSE
    LET node == nodes[nodeId]
        nodeType == typeOrDialog(node)
        isSpecial == nodeType # "dialog"
        call == <<nodeId, st.visited, st.emittedNodes, st.referencedLabels,
                  isLabelDefinition>>
        deeper == stack \cup {call}
        s1 == [arrive(st, nodeId, stack, "inline")
                  EXCEPT !.visited = @ \cup {nodeId},
                         !.emittedNodes = IF ~isLabelDefinition /\ nodeType = "dialog"
                                          THEN @ \cup {nodeId} ELSE @]
    IN  IF /\ nodeId \in st.emittedNodes /\ ~isLabelDefinition
           /\ nodeId \notin nodesNeedingLabels /\ ~isSpecial
        THEN arrive(st, nodeId, stack, "dropped")
        ELSE IF /\ nodeId \in st.visited /\ node.speaker = "NPC" /\ ~isLabelDefinition
                /\ nodeId \notin nodesNeedingLabels /\ ~isSpecial
        THEN arrive(st, nodeId, stack, "dropped")
        \* the same call is already running: the recursion does not end
        ELSE IF call \in stack THEN [st EXCEPT !.overflow = TRUE]
        ELSE CASE nodeType = "dialog" /\ node.speaker = "NPC" ->
                      npcChildren(nodes, nodesNeedingLabels, node,
                                  npcLine(nodes, node, s1, indent), indent, deeper)
               [] nodeType = "dialog" /\ node.speaker = "player" ->
                      convertPlayer(nodes, nodesNeedingLabels, node, s1, indent, deeper)
               [] nodeType = "setVariable" ->
                      followFirst(nodes, nodesNeedingLabels, node,
                                  pushBlank(pushLine(s1, indent, "stmt", nodeId)),
                                  indent, deeper)
               [] nodeType = "setBackground" ->
                      convertBackground(nodes, nodesNeedingLabels, node, s1, indent,
                                        deeper)
               [] nodeType = "ifStatement" ->
                      convertIf(nodes, nodesNeedingLabels, node, s1, indent, deeper)
               [] nodeType = "switchCase" ->
                      convertSwitch(nodes, nodesNeedingLabels, node, s1, indent, deeper)
               [] OTHER -> s1

\* the blocks of the labels that were referenced, in the order of
\* referencedLabels.forEach, which also visits labels added on the way
RECURSIVE labelBlocks(_, _, _, _)
labelBlocks(nodes, nodesNeedingLabels, i, st) ==
    IF i > Len(st.referencedLabels) THEN st
    ELSE LET nodeId == st.referencedLabels[i]
             s1 == pushBlank(pushLine(pushBlank(st), 0, "label", nodeId))
             s2 == [s1 EXCEPT !.visited = {}, !.emittedNodes = {}]
         IN  labelBlocks(nodes, nodesNeedingLabels, i + 1,
                         convertNodeToRenPy(nodes, nodesNeedingLabels, nodeId, s2, 1,
                                            TRUE, {}))

\* a name is a sequence of characters; toLowerCase on the letters the
\* names of the model use
toLowerCase(c) == CASE c = "H" -> "h" [] c = "K" -> "k" [] c = "M" -> "m" [] OTHER -> c

\* /[a-z0-9_]/ on the characters the names of the model use
wordCharacters == {"h", "k", "m", "1", "_"}

\* .replace(/_+/g, '_')
RECURSIVE collapseUnderscores(_)
collapseUnderscores(s) ==
    IF Len(s) < 2 THEN s
    ELSE IF s[1] = "_" /\ s[2] = "_" THEN collapseUnderscores(Tail(s))
    ELSE <<s[1]>> \o collapseUnderscores(Tail(s))

\* .replace(/^_|_$/g, '')
trimUnderscores(s) ==
    LET s1 == IF s # <<>> /\ s[1] = "_" THEN Tail(s) ELSE s
    IN  IF s1 # <<>> /\ s1[Len(s1)] = "_" THEN SubSeq(s1, 1, Len(s1) - 1) ELSE s1

sanitizeVariableName(name) ==
    LET lower == [i \in DOMAIN name |-> toLowerCase(name[i])]
        word == [i \in DOMAIN name |-> IF lower[i] \in wordCharacters THEN lower[i] ELSE "_"]
        led == IF word # <<>> /\ word[1] = "1" THEN <<"_">> \o word ELSE word
        trimmed == trimUnderscores(collapseUnderscores(led))
    IN  IF trimmed = <<>> THEN <<"character">> ELSE trimmed

\* the variable a node adds to usedVariables, if any
collectedName(node) ==
    LET nodeType == typeOrDialog(node)
    IN  IF nodeType = "setVariable" /\ node.variableName # Undefined
        THEN <<sanitizeVariableName(node.variableName)>>
        ELSE IF nodeType \in {"ifStatement", "switchCase"} /\ node.conditionVariable # Undefined
        THEN <<sanitizeVariableName(node.conditionVariable)>>
        ELSE <<>>

\* collectVariables over the children ids[i..]; st = [visited, usedVariables]
RECURSIVE collectVariables(_, _, _, _)
collectVariables(nodes, ids, i, st) ==
    IF i > Len(ids) THEN st
    ELSE LET nodeId == ids[i]
             seen == [st EXCEPT !.visited = @ \cup {nodeId}]
             name == collectedName(nodes[nodeId])
             own == IF name = <<>> THEN seen
                    ELSE [seen EXCEPT !.usedVariables = pushUnique(@, name[1])]
         IN  collectVariables(nodes, ids, i + 1,
                 IF nodeId \in st.visited THEN st
                 ELSE IF nodeId \notin DOMAIN nodes THEN seen
                 ELSE collectVariables(nodes, nodes[nodeId].childNodeIds, 1, own))

\* the variable named in the `if` or `elif` line written for a node
conditionName(node) ==
    IF typeOrDialog(node) = "ifStatement" THEN sanitizeVariableName(node.conditionVariable)
    ELSE node.switchVariable

\* `    $ name = 0` for every used variable, under a comment
initializeVariables(st, usedVariables) ==
    IF usedVariables = <<>> THEN st
    ELSE pushBlank([st EXCEPT !.lines = @ \o <<ExportLine(1, "comment", NoNode)>>
                                  \o [i \in DOMAIN usedVariables |-> ExportLine(1, "init", i)]])

\* mutant: a single parent is enough for a label
needsLabel_anyParent(node) == Len(node.parentNodeIds) > 0 /\ isDialogNode(node)

needsLabel(node) == Len(node.parentNodeIds) > 1 /\ isDialogNode(node)

exportToRenPy(dialog) ==
    LET nodes == dialog.nodes
        nodesNeedingLabels == {id \in DOMAIN nodes : needsLabel(nodes[id])}
        usedVariables == IF dialog.rootNodeId # NoNode
                         THEN collectVariables(nodes, <<dialog.rootNodeId>>, 1,
                                  [visited |-> {}, usedVariables |-> <<>>]).usedVariables
                         ELSE <<>>
        start == [lines |-> <<ExportLine(0, "label", NoNode), ExportLine(0, "blank", NoNode)>>,
                  visited |-> {}, emittedNodes |-> {}, referencedLabels |-> <<>>,
                  processedScenes |-> {}, overflow |-> FALSE, arrivals |-> {}]
        s0 == initializeVariables(start, usedVariables)
        s1 == IF dialog.rootNodeId # NoNode /\ dialog.rootNodeId \in DOMAIN nodes
              THEN convertNodeToRenPy(nodes, nodesNeedingLabels, dialog.rootNodeId, s0,
                                      1, FALSE, {})
              ELSE pushLine(s0, 1, "comment", NoNode)
        s2 == pushBlank(pushLine(pushLine(pushBlank(s1), 1, "comment", NoNode),
                                 1, "return", NoNode))
        s3 == labelBlocks(nodes, nodesNeedingLabels, 1, s2)
    IN  [lines |-> s3.lines, overflow |-> s3.overflow, arrivals |-> s3.arrivals,
         usedVariables |-> usedVariables]

(***************************************************************************)
(* Graphs handed to the compiler: NPC and player lines, side-effect nodes  *)
(* and branching nodes, parent lists mirroring the child lists, root 1.    *)
(***************************************************************************)
\* a setVariable node names its variable, an ifStatement node its
\* conditionVariable and a switchCase node its switchVariable, as the
\* editors of these nodes set them; the graph editor adds a player node
\* with the text ''
exportKind(type, speaker, cases, backgroundImage) ==
    [type |-> type, speaker |-> speaker, cases |-> cases,
     backgroundImage |-> backgroundImage, text |-> "Hi",
     variableName |-> IF type = "setVariable" THEN <<"m">> ELSE Undefined,
     conditionVariable |-> IF type = "ifStatement" THEN <<"H", " ", "k">> ELSE Undefined,
     switchVariable |-> IF type = "switchCase" THEN <<"m">> ELSE Undefined]

ExportKinds ==
    {exportKind(Undefined, "NPC", 0, Undefined),
     exportKind(Undefined, "player", 0, Undefined),
     [exportKind(Undefined, "player", 0, Undefined) EXCEPT !.text = ""],
     exportKind("setVariable", "NPC", 0, Undefined),
     exportKind("setBackground", "NPC", 0, "room"),
     exportKind("ifStatement", "NPC", 0, Undefined),
     exportKind("switchCase", "NPC", 1, Undefined),
     exportKind("switchCase", "NPC", 2, Undefined)}

\* the child lists of n nodes: ids of TreeIds, no node its own child
ExportLinks(n) ==
    {f \in [1 .. n -> LinkLists(TreeIds)] : \A k \in 1 .. n : ~includes(f[k], k)}

\* the graphs of n nodes
ExportDialogs(n) ==
    { treeDialog(1, kinds, cs) : kinds \in [1 .. n -> ExportKinds],
                                 cs \in ExportLinks(n) }

ExportToRenPy ==
    Call("exportToRenPy", currentDialog.rootNodeId, NoNode, exportToRenPy(currentDialog))

InitExport == \E n \in TreeIds : TreeStart(ExportDialogs(n))

NextExport == ExportToRenPy

SpecExport == InitExport /\ [][NextExport]_vars

\* every listed child exists and lists the parent; parents are the mirror
EdgeSymmetric(nodes) ==
    \A k \in DOMAIN nodes :
        /\ \A i \in DOMAIN nodes[k].childNodeIds :
              /\ nodes[k].childNodeIds[i] \in DOMAIN nodes
              /\ includes(nodes[nodes[k].childNodeIds[i]].parentNodeIds, k)
        /\ \A i \in DOMAIN nodes[k].parentNodeIds :
              /\ nodes[k].parentNodeIds[i] \in DOMAIN nodes
              /\ includes(nodes[nodes[k].parentNodeIds[i]].childNodeIds, k)

Exported == lastOp.op = "exportToRenPy"

\* C17: for every edge-symmetric graph with a valid root, whatever its
\* cycles, exportToRenPy returns after finitely many convertNodeToRenPy
\* calls.
C17_Terminates ==
    (Exported /\ EdgeSymmetric(currentDialog.nodes)) => ~lastOp.out.overflow

IsStatement(line) == line.kind \notin {"blank", "comment"}

IsHeader(line) == line.kind \in {"label", "if", "elif", "else", "menu", "choice"}

\* the block opened at line i holds a statement
BlockFilled(lines, i) ==
    \E j \in DOMAIN lines :
        /\ j > i
        /\ IsStatement(lines[j])
        /\ lines[j].indent > lines[i].indent
        /\ \A m \in (i + 1) .. (j - 1) : ~IsStatement(lines[m])

\* C18: in the compiled document every block header (label, if, elif, else,
\* menu, menu choice) is followed by a statement at deeper indentation
\* before any statement at the same or a lesser indentation.
C18_BlocksFilled ==
    (Exported /\ ~lastOp.out.overflow) =>
        \A i \in DOMAIN lastOp.out.lines :
            IsHeader(lastOp.out.lines[i]) => BlockFilled(lastOp.out.lines, i)

LinesOf(lines, kinds, id) ==
    {i \in DOMAIN lines : lines[i].kind \in kinds /\ lines[i].node = id}

\* C19: when two distinct NPC nodes that the compiler reached list the
\* same Dialogue node S as a child, the document holds one `label S` and
\* two `jump S`; every jump targets a label defined exactly once and no
\* label is defined twice.
C19_LabelsAndJumps ==
    (Exported /\ ~lastOp.out.overflow) =>
        LET nodes == currentDialog.nodes
            lines == lastOp.out.lines
            reachedNPC(p) == /\ isDialogNode(nodes[p]) /\ nodes[p].speaker = "NPC"
                             /\ LinesOf(lines, {"say"}, p) # {}
        IN  /\ \A p1, p2, s \in DOMAIN nodes :
                  (/\ p1 # p2 /\ reachedNPC(p1) /\ reachedNPC(p2)
                   /\ IsDialogue(nodes[s])
                   /\ includes(nodes[p1].childNodeIds, s)
                   /\ includes(nodes[p2].childNodeIds, s))
                  => /\ Cardinality(LinesOf(lines, {"label"}, s)) = 1
                     /\ Cardinality(LinesOf(lines, {"jump"}, s)) = 2
            /\ \A i \in DOMAIN lines :
                  /\ lines[i].kind = "jump"
                        => Cardinality(LinesOf(lines, {"label"}, lines[i].node)) = 1
                  /\ lines[i].kind = "label"
                        => Cardinality(LinesOf(lines, {"label"}, lines[i].node)) = 1

\* line i lies in the block of `label id`
InLabelBlock(lines, i, id) ==
    \E l \in LinesOf(lines, {"label"}, id) :
        /\ l < i
        /\ \A m \in (l + 1) .. i : lines[m].kind # "label"

\* the lines that show node id itself: its line, its menu choice, or the
\* comment a player node leaves
ContentOf(lines, id) == LinesOf(lines, {"say", "choice", "comment"}, id)

\* C20: a merge node (a Dialogue node with more than one parent) that the
\* compiler arrives at is shown exactly once in the document, inside the
\* block of its label, and every arrival is a jump to that label.
C20_MergeByJump ==
    (Exported /\ ~lastOp.out.overflow) =>
        LET nodes == currentDialog.nodes
            lines == lastOp.out.lines
        IN  \A s \in DOMAIN nodes :
                (/\ isDialogNode(nodes[s])
                 /\ Len(nodes[s].parentNodeIds) > 1
                 /\ ContentOf(lines, s) \cup LinesOf(lines, {"jump"}, s) # {})
                => /\ Cardinality(ContentOf(lines, s)) = 1
                   /\ \A i \in ContentOf(lines, s) : InLabelBlock(lines, i, s)


\* the part of C17 that holds: when every cycle passes through a Dialogue
\* node the compilation ends
C17_DialogueCycles ==
    (/\ Exported
     /\ \A k \in DOMAIN currentDialog.nodes : isDialogNode(currentDialog.nodes[k]))
        => ~lastOp.out.overflow


(***************************************************************************)
(* Properties of the compiled document.                                    *)
(***************************************************************************)
\* C21: when the emission arrives at an NPC Dialogue node whose conversion
\* is still running (a loop back to an earlier node or to the root), the
\* node is a merge node and the arrival is compiled to a jump to its label;
\* it is neither emitted inline nor dropped.
C21_LoopBackJumps ==
    (Exported /\ ~lastOp.out.overflow) =>
        \A a \in lastOp.out.arrivals :
            LET node == currentDialog.nodes[a.node] IN
            (isDialogNode(node) /\ node.speaker = "NPC")
                => /\ needsLabel(node)
                   /\ a.how = "jump"


\* the document initialises the name before line i, inside `label start:`
InitializedBefore(out, name, i) ==
    \E j \in 1 .. (i - 1) :
        /\ out.lines[j].kind = "init"
        /\ out.usedVariables[out.lines[j].node] = name
        /\ \A k \in 2 .. j : out.lines[k].kind # "label"

\* C22: every variable named in an emitted `if` or `elif` condition, of an
\* IfStatement or a SwitchCase node, is initialised by `$ name = 0` inside
\* `label start:` before the main flow.
C22_ConditionsInitialized ==
    (Exported /\ ~lastOp.out.overflow) =>
        \A i \in DOMAIN lastOp.out.lines :
            lastOp.out.lines[i].kind \in {"if", "elif"} =>
                InitializedBefore(lastOp.out,
                                  conditionName(currentDialog.nodes[lastOp.out.lines[i].node]), i)


\* the side-effect nodes the graphs of the model hold
IsSideEffect(node) == typeOrDialog(node) \in {"setVariable", "setBackground"}

\* C23: the statement of a side-effect node appears at most once in the
\* compiled document, even when the node is visited through more than one
\* traversal branch or has more than one parent.
C23_SideEffectOnce ==
    (Exported /\ ~lastOp.out.overflow) =>
        \A id \in DOMAIN currentDialog.nodes :
            IsSideEffect(currentDialog.nodes[id]) =>
                Cardinality(LinesOf(lastOp.out.lines, {"stmt"}, id)) <= 1


\* the nodes from nodeId along single children, each once
RECURSIVE chainFrom(_, _, _)
chainFrom(nodes, nodeId, seen) ==
    IF nodeId \notin DOMAIN nodes \/ nodeId \in seen THEN <<>>
    ELSE <<nodeId>> \o (IF nodes[nodeId].childNodeIds = <<>> THEN <<>>
                        ELSE chainFrom(nodes, nodes[nodeId].childNodeIds[1],
                                       seen \cup {nodeId}))

\* a linear chain: every node is a Dialogue node on the chain of the root
\* with at most one child; every node but the root has exactly one parent;
\* the root is a parentless NPC node or has exactly one parent
IsChain(dialog) ==
    LET nodes == dialog.nodes
        root == dialog.rootNodeId
    IN  /\ root \in DOMAIN nodes
        /\ Elems(chainFrom(nodes, root, {})) = DOMAIN nodes
        /\ \A k \in DOMAIN nodes :
              /\ isDialogNode(nodes[k])
              /\ Len(nodes[k].childNodeIds) <= 1
              /\ \A i \in DOMAIN nodes[k].childNodeIds : nodes[k].childNodeIds[i] \in DOMAIN nodes
              /\ k # root => Len(nodes[k].parentNodeIds) = 1
        /\ \/ Len(nodes[root].parentNodeIds) = 0 /\ nodes[root].speaker = "NPC"
           \/ Len(nodes[root].parentNodeIds) = 1

NonBlank(lines) == SelectSeq(lines, LAMBDA line : line.kind # "blank")

\* `label start:`, one spoken line for each node of the path, the closing
\* comment and `return`, and nothing else
ChainDocument(path) ==
    <<ExportLine(0, "label", NoNode)>>
        \o [i \in DOMAIN path |-> ExportLine(1, "say", path[i])]
        \o <<ExportLine(1, "comment", NoNode), ExportLine(1, "return", NoNode)>>

\* C24 as stated: a linear chain compiles to one spoken line per node, each
\* once and in path order, with no menu and no jump, and the start block
\* ends with `return`.
C24_LinearChain ==
    (Exported /\ IsChain(currentDialog)) =>
        /\ ~lastOp.out.overflow
        /\ NonBlank(lastOp.out.lines)
              = ChainDocument(chainFrom(currentDialog.nodes, currentDialog.rootNodeId, {}))

Spoken(nodes, path) ==
    SelectSeq(path, LAMBDA id : ~(nodes[id].speaker = "player" /\ trim(nodes[id].text) = ""))

\* C24 amended: a linear chain compiles to one spoken line per node except
\* the Player nodes whose text is blank, which leave no line; the lines are
\* in path order, there is no menu and no jump, and the start block ends
\* with `return`.
C24_LinearChainSpoken ==
    (Exported /\ IsChain(currentDialog)) =>
        /\ ~lastOp.out.overflow
        /\ NonBlank(lastOp.out.lines)
              = ChainDocument(Spoken(currentDialog.nodes,
                                     chainFrom(currentDialog.nodes, currentDialog.rootNodeId, {})))

\* Scenario A was compiled: NPC root, its Player child, that node's NPC child
C24_Witness ==
    /\ Exported
    /\ IsChain(currentDialog)
    /\ DOMAIN currentDialog.nodes = 1 .. 3
    /\ currentDialog.nodes[1].speaker = "NPC" /\ currentDialog.nodes[1].childNodeIds = <<2>>
    /\ currentDialog.nodes[2].speaker = "player" /\ currentDialog.nodes[2].childNodeIds = <<3>>
    /\ currentDialog.nodes[2].text = "Hi"
    /\ currentDialog.nodes[3].speaker = "NPC" /\ currentDialog.nodes[3].childNodeIds = <<>>
    /\ NonBlank(lastOp.out.lines) = ChainDocument(<<1, 2, 3>>)


\* the last line of the block that the header at line i opens
BodyEnd(lines, i) ==
    CHOOSE j \in i .. Len(lines) :
        /\ \A m \in (i + 1) .. j : lines[m].kind = "blank" \/ lines[m].indent > lines[i].indent
        /\ j < Len(lines) => /\ lines[j + 1].kind # "blank"
                             /\ lines[j + 1].indent <= lines[i].indent

\* the `else:` of the `if` at line i, or 0
ElseOf(lines, i) ==
    LET j == BodyEnd(lines, i)
    IN  IF j < Len(lines) /\ lines[j + 1] = ExportLine(lines[i].indent, "else", lines[i].node)
        THEN j + 1 ELSE 0

\* the lines of branch k (1: true, 2: false) of the `if` at line i
Branch(lines, i, k) ==
    IF k = 1 THEN (i + 1) .. BodyEnd(lines, i)
    ELSE IF k = 2 /\ ElseOf(lines, i) # 0
    THEN (ElseOf(lines, i) + 1) .. BodyEnd(lines, ElseOf(lines, i))
    ELSE {}

\* the lines written for node id, jumps and initialisations aside
WrittenFor(lines, id) ==
    {i \in DOMAIN lines : lines[i].node = id /\ lines[i].kind \notin {"init", "jump", "label"}}

IfLines(dialog, lines) ==
    {i \in DOMAIN lines : /\ lines[i].kind = "if"
                          /\ typeOrDialog(dialog.nodes[lines[i].node]) = "ifStatement"}

\* C25: an IfStatement node compiles to its `if` header and the emission
\* of children[0] one level deeper; `else:` and the emission of
\* children[1] follow exactly when children[1] exists; a child that only
\* this node leads to is written in its branch and nowhere else.
C25_IfStatement ==
    (Exported /\ ~lastOp.out.overflow) =>
        LET lines == lastOp.out.lines
            nodes == currentDialog.nodes
        IN  \A i \in IfLines(currentDialog, lines) :
                LET node == nodes[lines[i].node]
                    children == node.childNodeIds
                IN  /\ ElseOf(lines, i) # 0 <=> Len(children) >= 2
                    /\ \A k \in DOMAIN children :
                          LET c == children[k] IN
                          (/\ c \in DOMAIN nodes
                           /\ nodes[c].parentNodeIds = <<node.id>>
                           /\ c # currentDialog.rootNodeId)
                              => /\ \A w \in WrittenFor(lines, c) :
                                        \E h \in IfLines(currentDialog, lines) :
                                            /\ lines[h].node = node.id
                                            /\ w \in Branch(lines, h, k)
                                            /\ lines[w].indent > lines[h].indent
                                 /\ (k <= 2 /\ isDialogNode(nodes[c]) /\ nodes[c].speaker = "NPC")
                                        => \E h \in IfLines(currentDialog, lines) :
                                              /\ lines[h].node = node.id
                                              /\ \E w \in Branch(lines, h, k) :
                                                    lines[w] = ExportLine(lines[h].indent + 1, "say", c)


(***************************************************************************)
(* Acyclic graphs for the menus: a root NPC node and up to MaxMenuNodes    *)
(* nodes, every link leading to a node with a greater id.                  *)
(***************************************************************************)
MaxMenuNodes == 5

MenuKinds ==
    {exportKind(Undefined, "NPC", 0, Undefined),
     exportKind(Undefined, "player", 0, Undefined),
     exportKind("setVariable", "NPC", 0, Undefined)}

RECURSIVE ForwardLinks(_, _)
ForwardLinks(k, n) ==
    IF k > n THEN {<<>>}
    ELSE {<<l>> \o rest : l \in LinkLists((k + 1) .. n), rest \in ForwardLinks(k + 1, n)}

MenuDialogs(n) ==
    { treeDialog(1, [k \in 1 .. n |-> IF k = 1 THEN exportKind(Undefined, "NPC", 0, Undefined)
                                      ELSE kinds[k]], cs) :
        kinds \in [2 .. n -> MenuKinds], cs \in ForwardLinks(1, n) }

InitMenu == TreeStart(MenuDialogs(MaxMenuNodes))
NextMenu == ExportToRenPy
SpecMenu == InitMenu /\ [][NextMenu]_vars

\* an NPC node with two or more children that are all Player nodes
IsMenuOwner(nodes, id) ==
    /\ isDialogNode(nodes[id]) /\ nodes[id].speaker = "NPC"
    /\ Len(nodes[id].childNodeIds) >= 2
    /\ \A i \in DOMAIN nodes[id].childNodeIds :
          LET c == nodes[id].childNodeIds[i] IN
          c \in DOMAIN nodes /\ isDialogNode(nodes[c]) /\ nodes[c].speaker = "player"

\* the nodes of the choices of the menu at line i, in the order of the lines
ChoicesOf(lines, i) ==
    LET block == SubSeq(lines, i + 1, BodyEnd(lines, i))
        choices == SelectSeq(block, LAMBDA line : line.kind = "choice"
                                                  /\ line.indent = lines[i].indent + 1)
    IN  [k \in DOMAIN choices |-> choices[k].node]

\* node id is emitted among the lines of region: jumped to when it is a
\* merge node, written otherwise
EmittedIn(nodes, lines, region, id) ==
    IF needsLabel(nodes[id])
    THEN \E w \in region : lines[w].kind = "jump" /\ lines[w].node = id
    ELSE \E w \in region : w \in WrittenFor(lines, id)

\* the continuation of a node: its existing children and, past a
\* setVariable child, that node's first child
Continuation(nodes, id) ==
    LET children == Elems(existing(nodes, nodes[id].childNodeIds))
    IN  children \cup
        {nodes[c].childNodeIds[1] :
            c \in {x \in children : /\ typeOrDialog(nodes[x]) = "setVariable"
                                    /\ existing(nodes, nodes[x].childNodeIds) # <<>>}}

\* C26: an NPC node whose two or more children are all Player nodes
\* compiles to exactly one `menu:` block with one choice per Player child,
\* in child order, and the body of each choice holds the emission of that
\* Player node's own children, also when the Player node or its
\* continuation is shared with another menu.
C26_MenuChoices ==
    (Exported /\ ~lastOp.out.overflow) =>
        LET lines == lastOp.out.lines
            nodes == currentDialog.nodes
        IN  \A id \in DOMAIN nodes :
                (IsMenuOwner(nodes, id) /\ LinesOf(lines, {"say"}, id) # {}) =>
                    /\ Cardinality(LinesOf(lines, {"menu"}, id)) = 1
                    /\ \A i \in LinesOf(lines, {"menu"}, id) :
                          /\ ChoicesOf(lines, i) = nodes[id].childNodeIds
                          /\ \A c \in (i + 1) .. BodyEnd(lines, i) :
                                (lines[c].kind = "choice" /\ lines[c].indent = lines[i].indent + 1)
                                    => \A g \in Continuation(nodes, lines[c].node) :
                                          EmittedIn(nodes, lines, (c + 1) .. BodyEnd(lines, c), g)


\* C27: calculateVariables(root, target) reflects every SetVariable node on
\* getNodePath(root, target), also one whose parent on the path is itself a
\* side-effect node: the variable it names is present in the returned
\* mapping.
C27_PathVariablesPresent ==
    lastOp.op = "calculateVariables" =>
        LET nodes == currentDialog.nodes
            path == getNodePath(nodes, lastOp.a, lastOp.b)
        IN  \A i \in DOMAIN path :
                (/\ nodes[path[i]].type = "setVariable"
                 /\ nodes[path[i]].variableName # Undefined
                 /\ nodes[path[i]].variableValue # Undef)
                    => nodes[path[i]].variableName \in DOMAIN lastOp.out


(***************************************************************************)
(* Properties of the history.                                              *)
(***************************************************************************)
\* C28: in every reachable state historyIndex = -1 exactly when the history
\* is empty, and otherwise 0 <= historyIndex <= Len(history) - 1; right
\* after a saveToHistory, or an undo or redo that is not at a boundary, the
\* live dialog equals history[historyIndex].
C28_HistoryIndex ==
    /\ [](/\ historyIndex = -1 <=> history = <<>>
          /\ history # <<>> => (0 <= historyIndex /\ historyIndex <= Len(history) - 1))
    /\ [][ (\/ lastOp'.op = "saveToHistory" /\ currentDialog # Null
            \/ lastOp'.op = "undo" /\ historyIndex > 0
            \/ lastOp'.op = "redo" /\ historyIndex < Len(history) - 1)
           => currentDialog' = history'[historyIndex' + 1] ]_vars

\* a redo below the last snapshot brought back a later, different snapshot
C28_Witness ==
    /\ lastOp.op = "redo"
    /\ budget.redo < MaxUndoNav
    /\ historyIndex >= 1
    /\ currentDialog = history[historyIndex + 1]
    /\ currentDialog # history[historyIndex]


(***************************************************************************)
(* The store with a second dialog: handleNewDialog replaces the live       *)
(* dialog while the history keeps the snapshots it holds.                  *)
(***************************************************************************)
MaxDialogsOpened == 2
MaxMutDialogs == 1
MaxSaveDialogs == 2
MaxUndoDialogs == 1

InitDialogs ==
    /\ InitStore
    /\ budget = [load |-> MaxDialogsOpened, mut |-> MaxMutDialogs, save |-> MaxSaveDialogs,
                 undo |-> MaxUndoDialogs, redo |-> MaxUndoDialogs]

SpecDialogs == InitDialogs /\ [][Next]_vars

\* C30: after setCurrentDialog(d) has loaded a dialog d, no undo or redo
\* replaces the live dialog with a snapshot saved from another dialog: the
\* id of the live dialog is the same before and after every undo and redo.
C30_UndoStaysInDialog ==
    [][ (lastOp'.op \in {"undo", "redo"} /\ currentDialog # Null)
        => currentDialog'.id = currentDialog.id ]_vars


(***************************************************************************)
(* The chat handlers.  handleSendMessage and handleGenerateResponse run    *)
(* between awaits: each stretch of store calls between two awaits is one   *)
(* step, and the user's store calls interleave with the steps.  One        *)
(* handler is in flight at a time.                                         *)
(***************************************************************************)
MaxChatNodes == 5
MaxActions == 1
MaxMutChat == 1
MaxUndoChat == 1
MaxDialogsChat == 1

HandlerOps == {"handleSendMessage", "handleGenerateResponse", "generateNPCResponse",
               "detectEmotion", "analyzeAndCreateNodes"}

\* the dialog the chat panel is opened on: an NPC root and a player reply
ChatDialog ==
    [id |-> 1, rootNodeId |-> 1,
     nodes |-> (1 :> [createDialogNode(1, 1, <<>>, 0) EXCEPT !.childNodeIds = <<2>>])
               @@ (2 :> createDialogNode(2, 1, <<1>>, 0)),
     updatedAt |-> 0]

InitChat ==
    /\ currentDialog = ChatDialog
    /\ history = <<jsonCopy(ChatDialog)>>
    /\ historyIndex = 0
    /\ now = 0
    /\ nextNodeId = 3
    /\ nextDialogId = 2
    /\ lastOp = Op("setCurrentDialog", 1, 0)
    /\ rt = RtIdle
    /\ lk = LkIdle
    /\ run = <<>>
    /\ saves = 0
    /\ undos = 0
    /\ chat = ChatIdle
    /\ budget = [load |-> MaxDialogsChat, mut |-> MaxMutChat, save |-> 0,
                 undo |-> MaxUndoChat, redo |-> MaxUndoChat]

\* addNode(node); linkNodes(parentId, node.id)
addLinked(st, id, text, parentId, t) ==
    linkNodes(addNode(st, createDialogNode(id, text, <<parentId>>, t), t), parentId, id, t)

\* the for loop over nodeActions: each action node is created under the
\* node added before it
RECURSIVE addActions(_, _, _, _, _)
addActions(st, lastNodeId, id, n, t) ==
    IF n = 0 THEN st
    ELSE addActions(addLinked(st, id, 0, lastNodeId, t), id, id + 1, n - 1, t)

\* the snapshots a saveToHistory call of the handler pushes
pushedBy(st) == IF st.currentDialog = Null THEN {} ELSE {jsonCopy(st.currentDialog)}

\* a step of the handler: the store after its calls, and where it stands
ChatStep(call, st2, t, chat2) ==
    /\ currentDialog' = st2.currentDialog
    /\ history' = st2.history
    /\ historyIndex' = st2.historyIndex
    /\ now' = t
    /\ lastOp' = call
    /\ chat' = chat2
    /\ UNCHANGED <<nextDialogId, budget, rt, lk, run, saves, undos>>

\* handleSendMessage up to its first await: the player node goes under the
\* last node of the chat, a snapshot is pushed, and the handler returns
\* when the conversation has no character
SendMessage ==
    /\ chat.pc \in {"idle", "done"}
    /\ currentDialog # Null
    /\ nextNodeId <= MaxChatNodes
    /\ \E lastNode \in DOMAIN currentDialog.nodes, character \in BOOLEAN, t \in Times :
          LET st2 == saveToHistory(addLinked(St, nextNodeId, 1, lastNode, t))
          IN  ChatStep(Op("handleSendMessage", nextNodeId, lastNode), st2, t,
                       [pc |-> IF character THEN "response" ELSE "done",
                        player |-> nextNodeId, npc |-> NoNode,
                        added |-> {nextNodeId}, pushed |-> pushedBy(st2)])
    /\ nextNodeId' = nextNodeId + 1

\* handleGenerateResponse up to its first await: the node it is called on
\* exists and its first parent exists (the speakers and the character the
\* guards read are fields the store never reads)
GenerateResponse ==
    /\ chat.pc \in {"idle", "done"}
    /\ currentDialog # Null
    /\ \E nodeId \in DOMAIN currentDialog.nodes :
          /\ Len(currentDialog.nodes[nodeId].parentNodeIds) > 0
          /\ has(currentDialog, currentDialog.nodes[nodeId].parentNodeIds[1])
          /\ ChatStep(Op("handleGenerateResponse", nodeId, 0), St, now,
                      [pc |-> "response", player |-> nodeId, npc |-> NoNode,
                       added |-> {}, pushed |-> {}])
    /\ UNCHANGED nextNodeId

\* await aiService.generateNPCResponse: it resolves, or it rejects and the
\* catch block ends the handler
ResponseArrives ==
    /\ chat.pc = "response"
    /\ \E resolved \in BOOLEAN :
          ChatStep(Op("generateNPCResponse", chat.player, 0), St, now,
                   [chat EXCEPT !.pc = IF resolved THEN "emotion" ELSE "done"])
    /\ UNCHANGED nextNodeId

\* await aiService.detectEmotion, then the NPC node goes under the player
\* node
EmotionArrives ==
    /\ chat.pc = "emotion"
    /\ nextNodeId <= MaxChatNodes
    /\ \E resolved \in BOOLEAN, t \in Times :
          IF resolved
          THEN /\ ChatStep(Op("detectEmotion", chat.player, nextNodeId),
                           addLinked(St, nextNodeId, 1, chat.player, t), t,
                           [chat EXCEPT !.pc = "analysis", !.npc = nextNodeId,
                                        !.added = @ \cup {nextNodeId}])
               /\ nextNodeId' = nextNodeId + 1
          ELSE /\ ChatStep(Op("detectEmotion", chat.player, 0), St, now,
                           [chat EXCEPT !.pc = "done"])
               /\ UNCHANGED nextNodeId

\* await aiService.analyzeAndCreateNodes, then the action nodes go under
\* the NPC node one after the other and the handler pushes its snapshot
AnalysisArrives ==
    /\ chat.pc = "analysis"
    /\ \E resolved \in BOOLEAN, n \in 0 .. MaxActions, t \in Times :
          /\ nextNodeId + n <= MaxChatNodes + 1
          /\ IF resolved
             THEN LET st2 == saveToHistory(addActions(St, chat.npc, nextNodeId, n, t))
                  IN  /\ ChatStep(Op("analyzeAndCreateNodes", chat.npc, n), st2, t,
                                  [chat EXCEPT !.pc = "done",
                                               !.added = @ \cup (nextNodeId .. (nextNodeId + n - 1)),
                                               !.pushed = @ \cup pushedBy(st2)])
                      /\ nextNodeId' = nextNodeId + n
             ELSE /\ n = 0
                  /\ ChatStep(Op("analyzeAndCreateNodes", chat.npc, 0), St, now,
                              [chat EXCEPT !.pc = "done"])
                  /\ UNCHANGED nextNodeId

\* the user's store calls while the handler waits
DeleteChatNode == DeleteNodeOf(1 .. MaxChatNodes)

NextChat ==
    \/ SendMessage
    \/ GenerateResponse
    \/ ResponseArrives
    \/ EmotionArrives
    \/ AnalysisArrives
    \/ DeleteChatNode
    \/ Undo
    \/ Redo
    \/ NewDialog

SpecChat == InitChat /\ [][NextChat]_vars

(***************************************************************************)
(* Properties of the chat handlers.                                        *)
(***************************************************************************)
\* every parentNodeIds entry of node id names an existing node that lists
\* id in its childNodeIds
ParentsMirrored(nodes, id) ==
    \A q \in Elems(nodes[id].parentNodeIds) :
        q \in DOMAIN nodes /\ includes(nodes[q].childNodeIds, id)

FedBack(dialog, c) ==
    /\ dialog # Null =>
          \A id \in c.added \cap DOMAIN dialog.nodes : ParentsMirrored(dialog.nodes, id)
    /\ \A s \in c.pushed : Symmetric(s.nodes)

\* C29: whatever store calls of the user (deleteNode, undo, redo,
\* setCurrentDialog) interleave with the awaited AI calls, when
\* handleSendMessage or handleGenerateResponse finishes, every node it added
\* that is in the live graph has each parentNodeIds entry naming an existing
\* node that lists it in childNodeIds, and every snapshot it pushed with
\* saveToHistory is edge-symmetric.
C29_FedBackUnderInterleaving ==
    [][ (lastOp'.op \in HandlerOps /\ chat'.pc = "done") => FedBack(currentDialog', chat') ]_vars

====
